---- MODULE Spec2Model ----
(***************************************************************************)
(* A model of elementpath: the dynamic context (xpath_context.py), the     *)
(* node tree it builds (xpath_nodes.py) and the Pratt parser engine        *)
(* (todp_parser.py).                                                       *)
(*                                                                         *)
(* xpath_context.py calls the node classes with the context as first       *)
(* argument (ElementNode(self, elem, parent)) and reads node.context,      *)
(* node.index, node.tag and TextNode.is_tail(), none of which the node     *)
(* classes of xpath_nodes.py declare.  The model binds elem and parent by  *)
(* the call sites' meaning, keeps a context back-reference on every node   *)
(* the context builds, leaves position at the constructor's default        *)
(* because no call site passes one, and reads node.index as that position  *)
(* stamp.  An absent value (Python None) is the string "None" for an axis  *)
(* and the item of kind "None" for an item.                                *)
(***************************************************************************)
EXTENDS Integers, Sequences, FiniteSets, TLC

\* ---------------------------------------------------------------- bounds
MaxNodes == 3
MaxAttrs == 2
\* binding powers of the registrations, words and characters of a source
MaxBp == 2
MaxTokens == 5
MaxChain == 4
MaxLen == 4

\* the default of the position parameter of every node constructor
DefaultPosition == 1

VARIABLES
    doc,         \* the caller's ElementTree input (shape, tags, text/tail)
    pc,          \* where the context is: "build", "built", "idle", "call"
    nodes,       \* the arena of XPathNode objects, a node is its index
    children,    \* _build_nodes: the current iterator (what is left of it)
    parent,      \* _build_nodes: the node the next children are appended to
    iterators,   \* _build_nodes: stack of suspended sibling iterators
    ancestors,   \* _build_nodes: stack of the parents of those iterators
    root,        \* XPathContext.root (a node index)
    item,        \* XPathContext.item
    position,    \* XPathContext.position
    size,        \* XPathContext.size
    axis,        \* XPathContext.axis
    parent_map,  \* XPathContext._parent_map (built lazily)
    gen,         \* the axis generator the caller holds
    pre,         \* (item, position, size, axis) when the generator was made
    out,         \* what the generator has yielded so far
    symbol_table,  \* Parser.symbol_table: symbol -> token class
    tokenizer,     \* Parser.tokenizer
    classes,       \* how many token classes have been made
    given,         \* per symbol, the highest lbp ever passed for it
    source,        \* parser.source
    tokens,        \* parser.tokens, the iterator over the matches
    token,         \* parser.token
    match,         \* parser.match
    next_token,    \* parser.next_token
    next_match,    \* parser.next_match
    result,        \* what parse returned or raised
    found,         \* the matches a caller of the tokenizer has taken
    variables,   \* XPathContext.variables (a reference to a dict)
    dicts,       \* the dict objects, a dict is its index
    ctxs,        \* the XPathContext objects other than the first one
    copies,      \* the references the copy calls have returned
    nsmap,       \* elem.nsmap of the elements: the prefixes in dict order
    nest,        \* the generator of a nested evaluation the caller holds
    call,        \* a call of a method that is no generator: its arguments
    ret,         \* what that call returned or raised
    schema,      \* the XSD schema _build_schema_nodes is given as root
    elements     \* the declarations _build_schema_nodes has met

evalvars == <<variables, dicts, ctxs, copies, nsmap, nest>>

callvars == <<call, ret>>

schemavars == <<schema, elements>>

othervars == <<callvars, schemavars>>

ctxvars == <<doc, pc, nodes, children, parent, iterators, ancestors, root,
             item, position, size, axis, parent_map, gen, pre, out,
             variables, dicts, ctxs, copies, nsmap, nest>>

classvars == <<symbol_table, tokenizer, classes, given>>

instvars == <<source, tokens, token, match, next_token, next_match, result,
              found>>

parservars == <<symbol_table, tokenizer, classes, given, source, tokens,
                token, match, next_token, next_match, result, found>>

vars == <<doc, pc, nodes, children, parent, iterators, ancestors, root,
          item, position, size, axis, parent_map, gen, pre, out,
          symbol_table, tokenizer, classes, given, source, tokens, token,
          match, next_token, next_match, result, found,
          variables, dicts, ctxs, copies, nsmap, nest, call, ret,
          schema, elements>>

\* ------------------------------------------------------ the ElementTree
\* Elements are numbered 1..n in document (pre)order, par[e] is the parent.
RECURSIVE AncOrSelf(_, _)
AncOrSelf(p, e) == IF e = 0 THEN {} ELSE {e} \cup AncOrSelf(p, p[e])

Shapes(n) ==
    {p \in [1..n -> 0..(n - 1)] :
        /\ p[1] = 0
        /\ \A e \in 2..n : p[e] \in AncOrSelf(p, e - 1)}

Variants ==
    {<<"elem", FALSE>>, <<"elem", TRUE>>, <<"Comment", TRUE>>,
     <<"ProcessingInstruction", FALSE>>}

Docs ==
    UNION {
        {[n |-> n, par |-> p, last |-> v[1], mixed |-> v[2], isdoc |-> b] :
            p \in Shapes(n),
            v \in {w \in Variants : w[1] = "elem" \/ n >= 2},
            b \in BOOLEAN}
        : n \in 1..MaxNodes}

Ids(n) == [i \in 1..n |-> i]

\* list(elem): the child elements in order
Kids(d, e) == SelectSeq(Ids(d.n), LAMBDA j : d.par[j] = e)

\* callable(elem.tag): comments and processing instructions
CallableTag(d, e) == e = d.n /\ d.last # "elem"

\* elem.tail is not None, elem.text is not None
HasTail(d, e) == d.mixed /\ e # 1
HasText(d, e) == d.mixed /\ ~CallableTag(d, e)

\* len(elem.attrib)
NAttrib(d, e) == IF e = 1 THEN MaxAttrs ELSE 0

\* ------------------------------------------------------------ the nodes
NewNode(kind, elem, par, tail) ==
    [kind |-> kind, elem |-> elem, parent |-> par,
     position |-> DefaultPosition, children |-> <<>>, tail |-> tail,
     attributes |-> <<>>, has_attributes |-> FALSE,
     namespace_nodes |-> <<>>, has_namespace_nodes |-> FALSE]

ElementNode(elem, par) == NewNode("element", elem, par, FALSE)
CommentNode(elem, par) == NewNode("comment", elem, par, FALSE)
ProcessingInstructionNode(elem, par) ==
    NewNode("processing-instruction", elem, par, FALSE)
TextNode(elem, par, tail) == NewNode("text", elem, par, tail)
DocumentNode == NewNode("document", 0, 0, FALSE)

\* every child appended to the first node, whatever its parent
AppendToFirst(ns, p, c) ==
    [ns EXCEPT ![1].children = Append(@, c)]

\* parent.children.append(child)
AppendChild(ns, p, c) ==
    [ns EXCEPT ![p].children = Append(@, c)]

\* the node class _build_nodes picks for an element of the tree
ChildFor(d, e, par) ==
    IF ~CallableTag(d, e) THEN ElementNode(e, par)
    ELSE IF d.last = "Comment" THEN CommentNode(e, par)
    ELSE ProcessingInstructionNode(e, par)

\* ------------------------------------------------------------ the items
Item(k, a, b) == [k |-> k, a |-> a, b |-> b]
NoItem == Item("None", 0, 0)
NodeItem(i) == Item("node", i, 0)
RawItem(e) == Item("raw", e, 0)       \* an ElementTree element, unwrapped
WrapItem(e) == Item("wrap", e, 0)     \* ElementNode(elem) made by the caller
AtomItem == Item("atom", 0, 0)        \* an atomic value
AttrItem(e, j) == Item("attr", e, j)  \* an AttributeNode outside the tree
TextItem(e, t) == Item("text", e, t)  \* a TextNode outside the tree
StrItem(e) == Item("str", e, 0)       \* the string elem.tail

NoGen ==
    [state |-> "none", fn |-> "none", arg |-> "None", inner |-> FALSE,
     status |-> <<NoItem, 0, 0, "None">>, items |-> <<>>, k |-> 0,
     restore |-> "none", focus |-> FALSE, ends |-> "restore"]

\* ------------------------------------------ XPathContext._build_nodes
\* _build_nodes up to its while loop
BuildStart ==
    /\ doc \in Docs
    /\ pc = "build"
    /\ nodes = IF doc.isdoc
               THEN <<[DocumentNode EXCEPT !.children = <<2>>],
                      ElementNode(1, 1)>>
               ELSE <<ElementNode(1, 0)>>
    /\ parent = IF doc.isdoc THEN 2 ELSE 1
    /\ root = 1
    /\ children = Kids(doc, 1)
    /\ iterators = <<>>
    /\ ancestors = <<>>
    /\ item = NoItem
    /\ position = 1
    /\ size = 1
    /\ axis = "None"
    /\ parent_map = [built |-> FALSE, id |-> 0, keys |-> {}]
    /\ gen = NoGen
    /\ pre = <<NoItem, 0, 0, "None">>
    /\ out = <<>>

\* one turn of the while loop when next(children) raises StopIteration
BuildPop ==
    /\ pc = "build"
    /\ children = <<>>
    /\ IF iterators = <<>>
       THEN /\ pc' = "built"
            /\ UNCHANGED <<children, parent, iterators, ancestors>>
       ELSE /\ children' = iterators[Len(iterators)]
            /\ parent' = ancestors[Len(ancestors)]
            /\ iterators' = SubSeq(iterators, 1, Len(iterators) - 1)
            /\ ancestors' = SubSeq(ancestors, 1, Len(ancestors) - 1)
            /\ pc' = pc
    /\ UNCHANGED <<doc, nodes, root, item, position, size, axis,
                   parent_map, gen, pre, out>>
    /\ UNCHANGED parservars
    /\ UNCHANGED othervars
    /\ UNCHANGED evalvars

\* one turn of the while loop when next(children) returns an element
BuildChild ==
    /\ pc = "build"
    /\ children # <<>>
    /\ LET elem == Head(children)
           child == Len(nodes) + 1
           ns1 == AppendChild(Append(nodes, ChildFor(doc, elem, parent)),
                              parent, child)
           ns2 == IF HasTail(doc, elem)
                  THEN AppendChild(Append(ns1, TextNode(elem, parent, TRUE)),
                                   parent, child + 1)
                  ELSE ns1
       IN  /\ nodes' = ns2
           /\ IF Len(Kids(doc, elem)) > 0
              THEN /\ ancestors' = Append(ancestors, parent)
                   /\ parent' = child
                   /\ iterators' = Append(iterators, Tail(children))
                   /\ children' = Kids(doc, elem)
              ELSE /\ children' = Tail(children)
                   /\ UNCHANGED <<parent, iterators, ancestors>>
    /\ UNCHANGED <<doc, pc, root, item, position, size, axis,
                   parent_map, gen, pre, out>>
    /\ UNCHANGED parservars
    /\ UNCHANGED othervars
    /\ UNCHANGED evalvars

\* ------------------------------------------------- kinds of context item
Seq2Items(s) == [j \in 1..Len(s) |-> NodeItem(s[j])]

IsElementNode(it) ==
    it.k = "wrap" \/ (it.k = "node" /\ nodes[it.a].kind = "element")
IsDocumentNode(it) == it.k = "node" /\ nodes[it.a].kind = "document"
IsTextNode(it) ==
    it.k = "text" \/ (it.k = "node" /\ nodes[it.a].kind = "text")
IsAttributeNode(it) ==
    it.k = "attr" \/ (it.k = "node" /\ nodes[it.a].kind = "attribute")
IsCommentOrPINode(it) ==
    it.k = "node" /\ nodes[it.a].kind \in {"comment", "processing-instruction"}
IsXPathNode(it) == it.k \in {"node", "wrap", "attr", "text"}
\* node.context: the context that built the node, None for a caller's node
HasContext(it) == it.k = "node"
\* etree.is_etree_element and hasattr(item, 'tag')
is_etree_element(it) == it.k = "raw"
\* callable(x.tag)
TagCallable(it) == it.k = "raw" /\ CallableTag(doc, it.a)
is_element_node(it) ==
    IsElementNode(it) \/ (it.k = "raw" /\ ~CallableTag(doc, it.a))
\* TextNode.is_tail()
is_tail(it) ==
    IF it.k = "node" THEN nodes[it.a].tail ELSE it.k = "text" /\ it.b = 1

\* XPathNode.parent
ParentOf(it) ==
    IF it.k = "node"
    THEN IF nodes[it.a].parent = 0 THEN NoItem
         ELSE NodeItem(nodes[it.a].parent)
    ELSE IF it.k \in {"attr", "text"} /\ it.a # 0 THEN RawItem(it.a)
    ELSE NoItem

\* XPathContext.parent_map[elem], None for a KeyError whose getparent()
\* fallback raises AttributeError
MapLookup(it) ==
    IF it.k # "raw" THEN NoItem
    ELSE IF it.a = 1
         THEN IF doc.isdoc THEN NodeItem(root) ELSE NoItem
         ELSE RawItem(doc.par[it.a])

get_parent(it) ==
    IF IsXPathNode(it) THEN ParentOf(it) ELSE MapLookup(it)

\* the keys of {child: elem for elem in self.root.value.iter() for child
\* in elem}, with the root element for the tree of a document
Children ==
    {RawItem(e) : e \in 2..doc.n}
    \cup (IF doc.isdoc THEN {RawItem(1)} ELSE {})

\* XPathContext.parent_map: the dict, made when self._parent_map is None
ParentMap(pm) ==
    IF pm.built THEN pm
    ELSE [built |-> TRUE, id |-> pm.id + 1, keys |-> Children]

\* whether get_parent(it) reads (and so builds) the parent map
ReadsMap(it) == ~IsXPathNode(it)

\* the chain p, get_parent(p), ... up to None
RECURSIVE ParentChain(_)
ParentChain(p) ==
    IF p = NoItem THEN <<>> ELSE <<p>> \o ParentChain(get_parent(p))

\* a reversal that is forgotten: the list as it was built
NotReversed(s) == s

Reverse(s) == [j \in 1..Len(s) |-> s[Len(s) + 1 - j]]
SeqToSet(s) == {s[j] : j \in 1..Len(s)}
AnyReadsMap(s) == \E j \in 1..Len(s) : ReadsMap(s[j])

\* ---------------------------------------------- iteration over the nodes
\* ElementNode.iter / DocumentNode.iter: document order, with the
\* namespace and attribute nodes that have been built
RECURSIVE NodeIter(_, _), NodeIterSeq(_, _)
NodeIter(ns, i) ==
    <<i>> \o (IF ns[i].kind = "element"
               THEN ns[i].namespace_nodes \o ns[i].attributes ELSE <<>>)
          \o NodeIterSeq(ns, ns[i].children)
NodeIterSeq(ns, s) ==
    IF s = <<>> THEN <<>>
    ELSE NodeIter(ns, Head(s)) \o NodeIterSeq(ns, Tail(s))

\* ElementNode.iter_descendants / DocumentNode.iter_descendants
RECURSIVE NodeDescendants(_, _), NodeDescendantsSeq(_, _)
NodeDescendants(ns, i) == <<i>> \o NodeDescendantsSeq(ns, ns[i].children)
NodeDescendantsSeq(ns, s) ==
    IF s = <<>> THEN <<>>
    ELSE NodeDescendants(ns, Head(s)) \o NodeDescendantsSeq(ns, Tail(s))

WithSelf(s, with_self) == IF with_self THEN s ELSE Tail(s)

\* item.iter_descendants(with_self) for an ElementNode or DocumentNode item
iter_descendants_of(it, with_self) ==
    IF it.k = "wrap" THEN WithSelf(<<it>>, with_self)
    ELSE WithSelf(Seq2Items(NodeDescendants(nodes, it.a)), with_self)

\* XPathContext._iter_nodes(root): document, element and text nodes only
iter_nodes ==
    SelectSeq(NodeIter(nodes, root),
              LAMBDA i : nodes[i].kind \in {"document", "element", "text"})

\* ElementNode.attributes: built on first access
AttributeIds(ns, i) ==
    IF ns[i].has_attributes THEN ns[i].attributes
    ELSE [j \in 1..NAttrib(doc, ns[i].elem) |-> Len(ns) + j]

BuildAttributes(ns, i) ==
    IF ns[i].has_attributes THEN ns
    ELSE LET k == NAttrib(doc, ns[i].elem)
             start == ns[i].position + Len(nsmap)
                         + (IF "xml" \notin SeqToSet(nsmap) THEN 1 ELSE 0)
             made == [j \in 1..k |->
                        [NewNode("attribute", j, i, FALSE)
                            EXCEPT !.position = start + (j - 1)]]
         IN  [ns \o made EXCEPT ![i].attributes = AttributeIds(ns, i),
                                ![i].has_attributes = TRUE]

\* the prefixes of the namespace nodes: 'xml', then those of nsmap
NamespacePrefixes == <<"xml">> \o SelectSeq(nsmap, LAMBDA pfx : pfx # "xml")

\* ElementNode.namespace_nodes: built on first access
BuildNamespaceNodes(ns, i) ==
    IF ns[i].has_namespace_nodes THEN ns
    ELSE LET k == Len(NamespacePrefixes)
             made == [j \in 1..k |->
                        [NewNode("namespace", j, i, FALSE)
                            EXCEPT !.position = ns[i].position + 1 + (j - 1)]]
         IN  [ns \o made EXCEPT
                 ![i].namespace_nodes = [j \in 1..k |-> Len(ns) + j],
                 ![i].has_namespace_nodes = TRUE]

\* the children of an unwrapped element: text, child, tail, child, tail ...
RECURSIVE RawChildren(_)
RawChildren(s) ==
    IF s = <<>> THEN <<>>
    ELSE <<RawItem(Head(s))>>
         \o (IF HasTail(doc, Head(s)) THEN <<TextItem(Head(s), 1)>> ELSE <<>>)
         \o RawChildren(Tail(s))

RECURSIVE RawSiblings(_)
RawSiblings(s) ==
    IF s = <<>> THEN <<>>
    ELSE <<RawItem(Head(s))>>
         \o (IF HasTail(doc, Head(s)) THEN <<StrItem(Head(s))>> ELSE <<>>)
         \o RawSiblings(Tail(s))

\* the index of x in s, 0 when absent
IndexOf(s, x) ==
    IF \E j \in 1..Len(s) : s[j] = x
    THEN CHOOSE j \in 1..Len(s) : s[j] = x /\ \A h \in 1..(j - 1) : s[h] # x
    ELSE 0

\* ------------------------------------------------- the axis generators
\* What one call of an axis method does, read off its code: "return" (no
\* yield, nothing touched), "raise", or "loop": set the axis, replace the
\* item by enter, yield items one by one (for self.item in ...), then end by
\* restoring the saved status (restore names the fields) or by raising.
Plan(kind, ax, enter, items, restore, focus, ends, map, attrs) ==
    [kind |-> kind, axis |-> ax, enter |-> enter, items |-> items,
     restore |-> restore, focus |-> focus, ends |-> ends, map |-> map,
     attrs |-> attrs]

Return(map) ==
    Plan("return", "None", NoItem, <<>>, "none", FALSE, "restore", map, 0)
Raise == Plan("raise", "None", NoItem, <<>>, "none", FALSE, "raise", FALSE, 0)
Loop(ax, enter, items, restore, map) ==
    Plan("loop", ax, enter, items, restore, FALSE, "restore", map, 0)

iter_self == Loop("self", item, <<item>>, "axis", FALSE)

iter_attributes ==
    IF IsAttributeNode(item)
    THEN Loop("attribute", item, <<item>>, "axis", FALSE)
    ELSE IF IsElementNode(item) /\ HasContext(item)
    THEN [Loop("attribute", item,
               Seq2Items(AttributeIds(nodes, item.a)), "item_axis", FALSE)
            EXCEPT !.attrs = item.a]
    ELSE IF ~is_element_node(item) THEN Return(FALSE)
    ELSE Loop("attribute", RawItem(item.a),
              [j \in 1..NAttrib(doc, item.a) |-> AttrItem(item.a, j)],
              "item_axis", FALSE)

iter_children_or_self ==
    IF axis # "None" THEN Loop(axis, item, <<item>>, "none", FALSE)
    ELSE IF IsElementNode(item) /\ HasContext(item)
    THEN Loop("child", item, Seq2Items(nodes[item.a].children),
              "item_axis", FALSE)
    ELSE LET it == IF IsElementNode(item) THEN RawItem(item.a) ELSE item
         IN  IF it = NoItem
             THEN Loop("child", it,
                       IF nodes[root].kind = "document"
                       THEN Seq2Items(nodes[root].children)
                       ELSE <<NodeItem(root)>>,
                       "item_axis", FALSE)
             ELSE IF is_etree_element(it)
             THEN IF TagCallable(it)
                  THEN Loop("child", it, <<>>, "none", FALSE)
                  ELSE Loop("child", it,
                            (IF HasText(doc, it.a)
                             THEN <<TextItem(it.a, 0)>> ELSE <<>>)
                            \o RawChildren(Kids(doc, it.a)),
                            "item_axis", FALSE)
             ELSE IF nodes[root].kind = "document"
             THEN Loop("child", it, Seq2Items(nodes[root].children),
                       "item_axis", FALSE)
             ELSE Loop("child", it, <<>>, "item_axis", FALSE)

\* the parent that iter_parent, iter_ancestors take for a text node
TextParent(it) ==
    LET p == ParentOf(it)
    IN  IF p # NoItem /\ (TagCallable(p) \/ is_tail(it))
        THEN get_parent(p) ELSE p

TextParentReadsMap(it) ==
    LET p == ParentOf(it)
    IN  p # NoItem /\ (TagCallable(p) \/ is_tail(it)) /\ ReadsMap(p)

iter_parent ==
    LET applicable == IsXPathNode(item) \/ is_etree_element(item)
        par == IF IsElementNode(item)
               THEN IF ~HasContext(item) THEN get_parent(RawItem(item.a))
                    ELSE ParentOf(item)
               ELSE IF IsTextNode(item) THEN TextParent(item)
               ELSE IF IsXPathNode(item) THEN ParentOf(item)
               ELSE get_parent(item)
        map == IF IsElementNode(item) THEN ~HasContext(item)
               ELSE IF IsTextNode(item) THEN TextParentReadsMap(item)
               ELSE ~IsXPathNode(item)
    IN  IF ~applicable THEN Return(FALSE)
        ELSE IF par = NoItem THEN Return(map)
        ELSE Loop("parent", item, <<par>>, "item_axis", map)

iter_siblings(ax) ==
    LET label == IF ax = "None" THEN "following-sibling" ELSE ax
    IN
    IF (IsElementNode(item) \/ IsCommentOrPINode(item)) /\ HasContext(item)
    THEN LET par == nodes[item.a].parent
             sibs == nodes[par].children
             at == IndexOf(sibs, item.a)
         IN  IF par = 0 THEN Return(FALSE)
             ELSE Loop(label, item,
                       Seq2Items(IF ax = "preceding-sibling"
                                 THEN SubSeq(sibs, 1, at - 1)
                                 ELSE SubSeq(sibs, at + 1, Len(sibs))),
                       "item_axis", FALSE)
    ELSE IF ~IsElementNode(item)
            /\ (~is_etree_element(item) \/ TagCallable(item))
    THEN Return(FALSE)
    ELSE LET par == get_parent(RawItem(item.a))
         IN  IF par = NoItem THEN Return(TRUE)
             ELSE IF par.k = "node"
             \* the parent is the DocumentNode: its children are nodes, none
             \* of them is the unwrapped item
             THEN IF ax = "preceding-sibling"
                  THEN [Loop(label, item,
                             <<NodeItem(nodes[par.a].children[1])>>,
                             "item_axis", TRUE) EXCEPT !.ends = "raise"]
                  ELSE Loop(label, item, <<>>, "item_axis", TRUE)
             ELSE LET sibs == Kids(doc, par.a)
                      at == IndexOf(sibs, item.a)
                  IN  Loop(label, item,
                           RawSiblings(IF ax = "preceding-sibling"
                                       THEN SubSeq(sibs, 1, at - 1)
                                       ELSE SubSeq(sibs, at + 1, Len(sibs))),
                           "item_axis", TRUE)

iter_descendants(ax, inner_focus) ==
    LET with_self == ax # "descendant"
        run(descendants) ==
            IF inner_focus
            THEN [Loop(ax, item, descendants, "all", FALSE)
                    EXCEPT !.focus = TRUE]
            ELSE Loop(ax, item, descendants, "item_axis", FALSE)
    IN  IF IsElementNode(item) \/ IsDocumentNode(item)
        THEN run(iter_descendants_of(item, with_self))
        ELSE IF item = NoItem
        THEN IF nodes[root].kind = "document"
             THEN run(WithSelf(Seq2Items(NodeIter(nodes, root)), with_self))
             ELSE Raise
        ELSE IF is_element_node(item) THEN Raise
        ELSE IF with_self /\ IsXPathNode(item) THEN run(<<item>>)
        ELSE Return(FALSE)

iter_ancestors(ax) ==
    LET label == IF ax = "None" THEN "ancestor" ELSE ax
        applicable == IsXPathNode(item) \/ is_etree_element(item)
        par == IF IsElementNode(item)
               THEN IF HasContext(item) THEN ParentOf(item)
                    ELSE get_parent(RawItem(item.a))
               ELSE IF IsTextNode(item) THEN TextParent(item)
               ELSE IF IsXPathNode(item) THEN ParentOf(item)
               ELSE get_parent(item)
        chain == ParentChain(par)
        list == (IF ax = "ancestor-or-self" THEN <<item>> ELSE <<>>) \o chain
        map == \/ IsElementNode(item) /\ ~HasContext(item)
               \/ IsTextNode(item) /\ TextParentReadsMap(item)
               \/ ~IsXPathNode(item)
               \/ AnyReadsMap(chain)
    IN  IF ~applicable THEN Return(FALSE)
        ELSE Loop(label, item, Reverse(list), "item_axis", map)

iter_preceding ==
    LET wrapped == IsElementNode(item) /\ ~HasContext(item)
        it == IF wrapped THEN RawItem(item.a) ELSE item
        par == IF IsElementNode(item)
               THEN IF HasContext(item) THEN ParentOf(item)
                    ELSE get_parent(it)
               ELSE IF TagCallable(ParentOf(item))
                    THEN get_parent(ParentOf(item)) ELSE ParentOf(item)
        chain == ParentChain(par)
        all == Seq2Items(iter_nodes)
        at == IndexOf(all, it)
        before == IF at = 0 THEN all ELSE SubSeq(all, 1, at - 1)
        map == wrapped \/ AnyReadsMap(chain)
               \/ (~IsElementNode(item) /\ TagCallable(ParentOf(item)))
    IN  IF ~IsXPathNode(item) THEN Return(FALSE)
        ELSE IF ~wrapped /\ ParentOf(item) = NoItem THEN Return(FALSE)
        ELSE Loop("preceding", item,
                  SelectSeq(before, LAMBDA x : x \notin SeqToSet(chain)),
                  "item_axis", map)

\* node.index
Index(it) == IF it.k = "node" THEN nodes[it.a].position ELSE DefaultPosition

iter_followings ==
    IF item = NoItem \/ item = NodeItem(root) THEN Return(FALSE)
    ELSE IF IsElementNode(item)
    THEN LET descendants == SeqToSet(iter_descendants_of(item, TRUE))
         IN  Loop("following", item,
                  SelectSeq(Seq2Items(NodeIter(nodes, root)),
                            LAMBDA x : Index(item) < Index(x)
                                       /\ x \notin descendants),
                  "item_axis", FALSE)
    ELSE Return(FALSE)

\* ------------------------------------------ XPathContext.__init__, the rest
\* the item and axis arguments the caller may pass
ArgItems ==
    {NoItem, AtomItem, AttrItem(0, 1)}
    \cup {NodeItem(i) : i \in 1..Len(nodes)}
    \cup {RawItem(e) : e \in 1..doc.n}
    \cup {WrapItem(e) : e \in {x \in 1..doc.n : ~CallableTag(doc, x)}}

ArgAxes == {"None", "self"}

\* the node of the tree whose value is the element e
NodeOfElem(e) ==
    CHOOSE i \in 1..Len(nodes) : nodes[i].kind = "element" /\ nodes[i].elem = e

InitFocus(arg, ax) ==
    /\ pc = "built"
    /\ item' = IF arg.k = "raw" /\ is_element_node(arg)
               THEN NodeItem(NodeOfElem(arg.a))
               ELSE IF arg = NoItem /\ ~doc.isdoc THEN NodeItem(root)
               ELSE arg
    /\ position' = 1
    /\ size' = 1
    /\ axis' = ax
    /\ pc' = "idle"
    /\ UNCHANGED <<doc, nodes, children, parent, iterators, ancestors, root,
                   parent_map, gen, pre, out>>
    /\ UNCHANGED parservars
    /\ UNCHANGED othervars
    /\ UNCHANGED evalvars

\* --------------------------------------------- running an axis generator
Calls ==
    {<<"iter_self", "None", FALSE>>,
     <<"iter_attributes", "None", FALSE>>,
     <<"iter_children_or_self", "None", FALSE>>,
     <<"iter_parent", "None", FALSE>>,
     <<"iter_siblings", "None", FALSE>>,
     <<"iter_siblings", "preceding-sibling", FALSE>>,
     <<"iter_descendants", "None", FALSE>>,
     <<"iter_descendants", "descendant", FALSE>>,
     <<"iter_descendants", "None", TRUE>>,
     <<"iter_descendants", "descendant", TRUE>>,
     <<"iter_ancestors", "None", FALSE>>,
     <<"iter_ancestors", "ancestor-or-self", FALSE>>,
     <<"iter_preceding", "None", FALSE>>,
     <<"iter_followings", "None", FALSE>>}

PlanOf(g) ==
    CASE g.fn = "iter_self" -> iter_self
      [] g.fn = "iter_attributes" -> iter_attributes
      [] g.fn = "iter_children_or_self" -> iter_children_or_self
      [] g.fn = "iter_parent" -> iter_parent
      [] g.fn = "iter_siblings" -> iter_siblings(g.arg)
      [] g.fn = "iter_descendants" -> iter_descendants(g.arg, g.inner)
      [] g.fn = "iter_ancestors" -> iter_ancestors(g.arg)
      [] g.fn = "iter_preceding" -> iter_preceding
      [] g.fn = "iter_followings" -> iter_followings

\* the caller makes the generator: no line of the method has run yet
Call(c) ==
    /\ pc = "idle"
    /\ gen' = [NoGen EXCEPT !.state = "created", !.fn = c[1], !.arg = c[2],
                            !.inner = c[3]]
    /\ pre' = <<item, position, size, axis>>
    /\ out' = <<>>
    /\ pc' = "call"
    /\ UNCHANGED <<doc, nodes, children, parent, iterators, ancestors, root,
                   item, position, size, axis, parent_map>>
    /\ UNCHANGED parservars
    /\ UNCHANGED othervars
    /\ UNCHANGED evalvars

\* no closing statement: the context stays as the loop left it
Unrestored(restore, status, cur) == cur

\* the closing statement of the method: self.item, ... = status
Restored(restore, status, cur) ==
    CASE restore = "none" -> cur
      [] restore = "axis" -> <<cur[1], cur[2], cur[3], status[4]>>
      [] restore = "item_axis" -> <<status[1], cur[2], cur[3], status[4]>>
      [] restore = "all" -> status

\* next(generator): run the method up to its next yield or to its end
Resume ==
    /\ pc = "call"
    /\ gen.state \in {"created", "suspended"}
    /\ LET started == gen.state = "created"
           P == PlanOf(gen)
           g == IF started
                THEN [gen EXCEPT !.status = <<item, position, size, axis>>,
                                 !.items = P.items, !.restore = P.restore,
                                 !.focus = P.focus, !.ends = P.ends]
                ELSE gen
           cur == IF started /\ P.kind = "loop"
                  THEN <<P.enter, position,
                         IF P.focus THEN Len(P.items) ELSE size, P.axis>>
                  ELSE <<item, position, size, axis>>
           fin == IF g.ends = "raise" THEN cur
                  ELSE Restored(g.restore, g.status, cur)
       IN  /\ parent_map' = IF started /\ P.map THEN ParentMap(parent_map)
                            ELSE parent_map
           /\ nodes' = IF started /\ P.attrs # 0
                       THEN BuildAttributes(nodes, P.attrs) ELSE nodes
           /\ IF started /\ P.kind # "loop"
              THEN /\ gen' = [g EXCEPT !.state = IF P.kind = "raise"
                                                 THEN "raised" ELSE "done"]
                   /\ UNCHANGED <<item, position, size, axis, out>>
              ELSE IF g.k < Len(g.items)
              THEN /\ item' = g.items[g.k + 1]
                   /\ position' = IF g.focus THEN g.k + 1 ELSE cur[2]
                   /\ size' = cur[3]
                   /\ axis' = cur[4]
                   /\ out' = Append(out, g.items[g.k + 1])
                   /\ gen' = [g EXCEPT !.state = "suspended", !.k = g.k + 1]
              ELSE /\ item' = fin[1]
                   /\ position' = fin[2]
                   /\ size' = fin[3]
                   /\ axis' = fin[4]
                   /\ out' = out
                   /\ gen' = [g EXCEPT !.state = IF g.ends = "raise"
                                                 THEN "raised" ELSE "done"]
    /\ UNCHANGED <<doc, pc, children, parent, iterators, ancestors, root, pre>>
    /\ UNCHANGED parservars
    /\ UNCHANGED othervars
    /\ UNCHANGED evalvars

\* the caller stops iterating and drops the generator: no method has a
\* try/finally, so closing it runs no statement
Abandon ==
    /\ pc = "call"
    /\ gen.state \in {"created", "suspended"}
    /\ gen' = [gen EXCEPT !.state = "abandoned"]
    /\ UNCHANGED <<doc, pc, nodes, children, parent, iterators, ancestors,
                   root, item, position, size, axis, parent_map, pre, out>>
    /\ UNCHANGED parservars
    /\ UNCHANGED othervars
    /\ UNCHANGED evalvars

NextCtx ==
    \/ BuildPop
    \/ BuildChild
    \/ \E arg \in ArgItems, ax \in ArgAxes : InitFocus(arg, ax)
    \/ \E c \in Calls : Call(c)
    \/ Resume
    \/ Abandon

\* =================================================================
\* todp_parser.py: the tokenizer, the symbol table and the Pratt parser
\* =================================================================
\* A string is the sequence of its characters, so that the tokenizer's
\* pattern can be run on it.
Digits == {"0", "1", "2", "3", "4", "5", "6", "7", "8", "9"}

Letters ==
    {"a", "b", "c", "d", "e", "f", "g", "h", "i", "j", "k", "l", "m",
     "n", "o", "p", "q", "r", "s", "t", "u", "v", "w", "x", "y", "z",
     "A", "B", "C", "D", "E", "F", "G", "H", "I", "J", "K", "L", "M",
     "N", "O", "P", "Q", "R", "S", "T", "U", "V", "W", "X", "Y", "Z"}

\* \s
Spaces == {" ", "\t", "\n"}

\* what the class [^/\[\]()@=|\s] of the names alternative leaves out
NameStops == {"/", "[", "]", "(", ")", "@", "=", "|"} \cup Spaces

\* \w, for the \b of an alphabetic symbol
WordChars == Letters \cup Digits \cup {"_"}

Min(S) == CHOOSE x \in S : \A y \in S : x <= y
Max(S) == CHOOSE x \in S : \A y \in S : x >= y

\* the symbols that Parser.end and Token.wrong_symbol single out
EndSymbol == <<"(", "e", "n", "d", ")">>
NameSymbol == <<"(", "n", "a", "m", "e", ")">>
StringSymbol == <<"(", "s", "t", "r", "i", "n", "g", ")">>
FloatSymbol == <<"(", "f", "l", "o", "a", "t", ")">>
DecimalSymbol == <<"(", "d", "e", "c", "i", "m", "a", "l", ")">>
IntegerSymbol == <<"(", "i", "n", "t", "e", "g", "e", "r", ")">>

SpecialSymbols ==
    {EndSymbol, NameSymbol, StringSymbol, FloatSymbol, DecimalSymbol,
     IntegerSymbol}

\* str.strip()
Strip(w) ==
    LET keep == {k \in 1..Len(w) : w[k] \notin Spaces}
    IN  IF keep = {} THEN <<>> ELSE SubSeq(w, Min(keep), Max(keep))

\* ------------------------------------------------ the compiled pattern
\* a greedy run: the last index of the longest run of characters of the
\* set cs that starts at i (i - 1 when there is none)
RunEnd(s, i, cs) ==
    CHOOSE j \in (i - 1)..Len(s) :
        /\ \A k \in i..j : s[k] \in cs
        /\ j = Len(s) \/ s[j + 1] \notin cs

\* the same for a negated class
RunEndNot(s, i, cs) ==
    CHOOSE j \in (i - 1)..Len(s) :
        /\ \A k \in i..j : s[k] \notin cs
        /\ j = Len(s) \/ s[j + 1] \in cs

\* the text w stands in s at i
StartsWith(s, i, w) ==
    /\ i + Len(w) - 1 <= Len(s)
    /\ \A k \in 1..Len(w) : s[i + k - 1] = w[k]

\* The operators below give the index of the last character of the match
\* that starts at i, and -1 when the alternative does not match there.

\* '[^']*' and "[^"]*"
QuotedEnd(s, i, q) ==
    IF s[i] = q /\ \E j \in (i + 1)..Len(s) : s[j] = q
    THEN Min({j \in (i + 1)..Len(s) : s[j] = q})
    ELSE -1

\* (?:\d+|\.\d+)(?:\.\d*)?(?:[Ee][+-]?\d+)?
NumberEnd(s, i) ==
    LET first == IF s[i] \in Digits THEN RunEnd(s, i, Digits)
                 ELSE IF s[i] = "." /\ i < Len(s) /\ s[i + 1] \in Digits
                 THEN RunEnd(s, i + 1, Digits)
                 ELSE -1
        frac(e) == IF e < Len(s) /\ s[e + 1] = "."
                   THEN RunEnd(s, e + 2, Digits) ELSE e
        exp(e) ==
            IF e < Len(s) /\ s[e + 1] \in {"e", "E"}
            THEN LET d == IF e + 1 < Len(s) /\ s[e + 2] \in {"+", "-"}
                          THEN e + 3 ELSE e + 2
                 IN  IF d <= Len(s) /\ s[d] \in Digits
                     THEN RunEnd(s, d, Digits) ELSE e
            ELSE e
    IN  IF first = -1 THEN -1 ELSE exp(frac(first))

\* the first alternative: literals (strings and numbers)
LiteralEnd(s, i) ==
    IF s[i] \in {"'", "\""} THEN QuotedEnd(s, i, s[i]) ELSE NumberEnd(s, i)

IsAlpha(w) == w # <<>> /\ \A k \in 1..Len(w) : w[k] \in Letters

\* symbol_escape: the pattern of one symbol of more than one character.
\* A symbol that ends with "(" or "::" lets \s* stand before that suffix
\* (re.escape escapes the colon in the Python versions the module was
\* written for); an alphabetic symbol is anchored with \b on both sides.
\* The result of s.replace(r'\ ', '\s+') is dropped by the code, so a
\* blank inside a symbol matches one blank only.
symbol_escape(s, i, w) ==
    LET suffix == IF w[Len(w)] = "(" THEN <<"(">>
                  ELSE IF Len(w) >= 2 /\ w[Len(w) - 1] = ":" /\ w[Len(w)] = ":"
                  THEN <<":", ":">>
                  ELSE <<>>
        body == SubSeq(w, 1, Len(w) - Len(suffix))
        gap == RunEnd(s, i + Len(body), Spaces)
        last == i + Len(w) - 1
    IN  IF suffix # <<>>
        THEN IF StartsWith(s, i, body) /\ StartsWith(s, gap + 1, suffix)
             THEN gap + Len(suffix) ELSE -1
        ELSE IF /\ StartsWith(s, i, w)
                /\ IsAlpha(w) =>
                      /\ i = 1 \/ s[i - 1] \notin WordChars
                      /\ last = Len(s) \/ s[last + 1] \notin WordChars
             THEN last ELSE -1

\* sorted(symbols, key=lambda x: -len(x)): a stable sort, longest first
RECURSIVE ShortestFirst(_, _)
ShortestFirst(symbols, n) ==
    IF n = 0 THEN <<>>
    ELSE ShortestFirst(symbols, n - 1)
         \o SelectSeq(symbols, LAMBDA w : Len(w) = n)

RECURSIVE ByLength(_, _)
ByLength(symbols, n) ==
    IF n = 0 THEN <<>>
    ELSE SelectSeq(symbols, LAMBDA w : Len(w) = n)
         \o ByLength(symbols, n - 1)

\* Parser.tokenizer before Parser.end
NoTokenizer == [compiled |-> FALSE, multi |-> <<>>, single |-> <<>>]

\* create_tokenizer(symbols): the symbols alternative (%s|[%s]) holds the
\* symbols of more than one character, longest first, and then a class of
\* the one-character symbols.  With no one-character symbol the class is
\* "[]" and re.compile raises: the caller keeps the tokenizer it had.
create_tokenizer(symbols, old) ==
    LET blank == SelectSeq([k \in 1..Len(symbols) |-> Strip(symbols[k])],
                           LAMBDA w : w # <<>>)
        sorted == ByLength(blank, Max({0} \cup {Len(blank[k]) :
                                                k \in 1..Len(blank)}))
        multi == SelectSeq(sorted, LAMBDA w : Len(w) > 1)
        single == SelectSeq(sorted, LAMBDA w : Len(w) = 1)
    IN  IF single = <<>> THEN old
        ELSE [compiled |-> TRUE, multi |-> multi, single |-> single]

\* the second alternative: symbols.  With no symbol of more than one
\* character the group is (|[...]), whose first branch matches the empty
\* string wherever the literals alternative failed.
OperatorEnd(tk, s, i, nonempty) ==
    LET hits == {k \in 1..Len(tk.multi) :
                    symbol_escape(s, i, tk.multi[k]) # -1}
    IN  IF hits # {} THEN symbol_escape(s, i, tk.multi[Min(hits)])
        ELSE IF tk.multi = <<>> /\ ~nonempty THEN i - 1
        ELSE IF \E k \in 1..Len(tk.single) : tk.single[k] = <<s[i]>>
        THEN i ELSE -1

\* the third alternative: names, (?:{[^}]+\})?[^/\[\]()@=|\s]+
NameEnd(s, i) ==
    LET closing == {j \in (i + 2)..Len(s) : s[j] = "}"}
        q == IF s[i] = "{" /\ i < Len(s) /\ s[i + 1] # "}" /\ closing # {}
             THEN Min(closing) ELSE 0
    IN  IF q > 0 /\ q < Len(s) /\ s[q + 1] \notin NameStops
        THEN RunEndNot(s, q + 1, NameStops)
        ELSE IF s[i] \notin NameStops THEN RunEndNot(s, i, NameStops)
        ELSE -1

Match(group, start, end) == [group |-> group, start |-> start, end |-> end]
NoMatch == Match("None", 0, 0)

\* pattern.match at i: the alternatives in the order of the template,
\* the last being \s+, which fills no group
MatchAt(tk, s, i, nonempty) ==
    IF i > Len(s)
    THEN IF tk.multi = <<>> /\ ~nonempty
         THEN Match("operator", i, i - 1) ELSE NoMatch
    ELSE IF LiteralEnd(s, i) # -1 THEN Match("literal", i, LiteralEnd(s, i))
    ELSE IF OperatorEnd(tk, s, i, nonempty) # -1
    THEN Match("operator", i, OperatorEnd(tk, s, i, nonempty))
    ELSE IF NameEnd(s, i) # -1 THEN Match("name", i, NameEnd(s, i))
    ELSE IF s[i] \in Spaces THEN Match("space", i, RunEnd(s, i, Spaces))
    ELSE NoMatch

\* iter(()) and iter(tokenizer.finditer(source))
NoTokens == [live |-> FALSE, at |-> 0, nonempty |-> FALSE]
finditer == [live |-> TRUE, at |-> 1, nonempty |-> FALSE]

\* next(tokens): the leftmost match at or after the iterator's place; a
\* character at which no alternative matches is passed over.  After an
\* empty match the next one cannot be empty at the same place.
NextMatch(tk, s, it) ==
    LET starts == {i \in it.at..(Len(s) + 1) :
                      MatchAt(tk, s, i, it.nonempty /\ i = it.at) # NoMatch}
    IN  IF ~it.live \/ starts = {} THEN NoMatch
        ELSE MatchAt(tk, s, Min(starts),
                     it.nonempty /\ Min(starts) = it.at)

After(it, m) ==
    IF m = NoMatch THEN [it EXCEPT !.live = FALSE]
    ELSE [it EXCEPT !.at = m.end + 1, !.nonempty = m.end < m.start]

Text(s, m) == SubSeq(s, m.start, m.end)

\* --------------------------------------------------------------- Token
None == [symbol |-> <<"None">>, value |-> <<>>, operands |-> <<>>]

\* the callables of the Token base class: nud and led call wrong_symbol
WrongSymbol == [kind |-> "wrong_symbol", bp |-> 0]

\* the class attributes of Token; the class itself has no label
Token ==
    [symbol |-> <<"None">>, lbp |-> 0, rbp |-> 0, nud |-> WrongSymbol,
     led |-> WrongSymbol, label |-> "None"]

\* token_class(parser, value): Token.__init__
NewToken(class, value) ==
    [symbol |-> class.symbol,
     value |-> IF value = <<"None">> THEN class.symbol ELSE value,
     operands |-> <<>>]

\* Token.tree
RECURSIVE tree(_)
RECURSIVE JoinTrees(_)
JoinTrees(ts) ==
    IF Len(ts) = 1 THEN tree(ts[1])
    ELSE tree(ts[1]) \o <<" ">> \o JoinTrees(Tail(ts))

tree(t) ==
    IF t.operands # <<>>
    THEN <<"(">> \o t.value \o <<" ">> \o JoinTrees(t.operands) \o <<")">>
    ELSE <<"(">> \o t.value \o <<")">>

\* ------------------------------------------ Parser: the symbol table
\* The class side of a parser: its symbol table, its tokenizer and the
\* number of token classes made so far (a class is known by its number).
begin == [symbol_table |-> <<>>, tokenizer |-> NoTokenizer, classes |-> 0]

Attr(kwargs, key, default) ==
    IF key \in DOMAIN kwargs THEN kwargs[key] ELSE default

\* callable(value)
Callable(key) == key \in {"nud", "led"}

\* the symbol table with one more key
Put(table, symbol, class) ==
    [s \in DOMAIN table \cup {symbol} |->
        IF s = symbol THEN class ELSE table[s]]

AnyLbp(class, kwargs) == Attr(kwargs, "lbp", class.lbp)

\* if key == 'lbp' and value > token_class.lbp: token_class.lbp = value
RaisedLbp(class, kwargs) ==
    IF "lbp" \in DOMAIN kwargs /\ kwargs.lbp > class.lbp
    THEN kwargs.lbp ELSE class.lbp

\* Parser.register(symbol, **kwargs) for a symbol given as a string
register(K, name, kwargs) ==
    LET symbol == Strip(name)
    IN  IF symbol \notin DOMAIN K.symbol_table
        THEN [symbol_table |->
                 Put(K.symbol_table, symbol,
                     [k \in DOMAIN Token \cup {"cls"} |->
                        CASE k = "cls" -> K.classes + 1
                          [] k = "symbol" -> symbol
                          [] OTHER -> Attr(kwargs, k, Token[k])]),
              tokenizer |-> NoTokenizer,
              classes |-> K.classes + 1]
        ELSE LET class == K.symbol_table[symbol]
             IN  [K EXCEPT !.symbol_table[symbol] =
                    [k \in DOMAIN class |->
                        CASE k = "lbp" -> RaisedLbp(class, kwargs)
                          [] k \in DOMAIN kwargs /\ Callable(k) -> kwargs[k]
                          [] OTHER -> class[k]]]

\* Parser.register(token_class, **kwargs) for a symbol given as a class of
\* its own: a class not yet in the table is put in as it is (the
\* tokenizer is left alone), and the keyword arguments are then applied as
\* to a known class.  A class other than the one the table holds for the
\* symbol fails the assertion.
register_class(K, class, kwargs) ==
    LET symbol == class.symbol
        known == symbol \in DOMAIN K.symbol_table
        made == [class EXCEPT !.cls = K.classes + 1]
        token_class == IF known THEN K.symbol_table[symbol] ELSE made
    IN  IF known /\ class.cls # K.symbol_table[symbol].cls THEN K
        ELSE [K EXCEPT
                !.symbol_table =
                    Put(K.symbol_table, symbol,
                        [k \in DOMAIN token_class |->
                            CASE k = "lbp" -> RaisedLbp(token_class, kwargs)
                              [] k \in DOMAIN kwargs /\ Callable(k) -> kwargs[k]
                              [] OTHER -> token_class[k]]),
                !.classes = IF known THEN K.classes ELSE K.classes + 1]

literal(K, symbol, bp) ==
    register(K, symbol, [lbp |-> bp, nud |-> [kind |-> "literal", bp |-> 0]])

prefix(K, symbol, bp) ==
    register(K, symbol, [lbp |-> bp, rbp |-> bp,
                         nud |-> [kind |-> "prefix", bp |-> bp]])

infix(K, symbol, bp) ==
    register(K, symbol, [lbp |-> bp, rbp |-> bp,
                         led |-> [kind |-> "infix", bp |-> bp]])

infixr(K, symbol, bp) ==
    register(K, symbol, [lbp |-> bp, rbp |-> bp - 1,
                         led |-> [kind |-> "infixr", bp |-> bp - 1]])

postfix(K, symbol, bp) ==
    register(K, symbol, [lbp |-> bp, rbp |-> bp,
                         led |-> [kind |-> "postfix", bp |-> 0]])

\* @method(symbol, bp) over a function named nud or led: the class keeps
\* a callable of that name, so the assertion of bind passes
method(K, symbol, bp, name) ==
    LET R == register(K, symbol, [lbp |-> bp, rbp |-> bp])
    IN  [R EXCEPT !.symbol_table[Strip(symbol)][name] =
            [kind |-> "method", bp |-> 0]]

\* the keys of the symbol table in the order they were put in
Keys(table) ==
    [i \in 1..Cardinality(DOMAIN table) |->
        CHOOSE s \in DOMAIN table : table[s].cls = i]

\* Parser.end
end(K) ==
    LET R == register(K, EndSymbol, <<>>)
        keys == Keys(R.symbol_table)
    IN  [R EXCEPT !.tokenizer =
            create_tokenizer(
                SelectSeq(keys, LAMBDA s : Strip(s) \notin SpecialSymbols),
                R.tokenizer)]

\* ------------------------------------------------ Parser: one parse
\* The instance side of a parser while a method runs; error is what the
\* method has raised ("None": nothing).
Failed(p) == p.error # "None"
Throw(p, error) == [p EXCEPT !.error = error]

\* what a message says besides its fixed words: the token it shows with
\* %r, the token it names with %s, the line and the column
NoDetail ==
    [value |-> <<"None">>, after |-> <<"None">>, line |-> 0, column |-> 0]

\* Token.__str__, and str(None)
Str(t) ==
    IF t = None THEN <<"None">>
    ELSE IF /\ Len(t.symbol) >= 2
            /\ IsAlpha(SubSeq(t.symbol, 2, Len(t.symbol) - 1))
            /\ t.symbol[1] = "("
            /\ t.symbol[Len(t.symbol)] = ")"
    THEN <<"'">> \o t.value \o <<"'", " ">>
         \o SubSeq(t.symbol, 2, Len(t.symbol) - 1)
    ELSE <<"'">> \o t.symbol \o <<"'", " ", "operator">>

\* Parser.position: line and column of the current match in the source
Position(p) ==
    IF p.match = NoMatch THEN <<1, 0>>
    ELSE LET token_index == p.match.start - 1
             before == SubSeq(p.source, 1, Min({token_index, Len(p.source)}))
             newlines == {k \in 1..Len(before) : before[k] = "\n"}
             line == Cardinality(newlines) + 1
         IN  IF line = 1 THEN <<line, token_index + 1>>
             ELSE <<line, token_index - (Max(newlines) - 1)>>

\* raise ElementPathSyntaxError(... % (value, token, line, column))
ThrowAt(p, error, value, after, pos) ==
    [p EXCEPT !.error = error,
              !.detail = [value |-> value, after |-> after,
                          line |-> pos[1], column |-> pos[2]]]

\* Token.wrong_symbol, Token.expected, Token.unexpected; own says that
\* the token is parser.token itself (self is token)
wrong_symbol(p, t, own) ==
    ThrowAt(p, "unexpected token",
            IF t.symbol \in SpecialSymbols THEN t.value ELSE t.symbol,
            IF ~own /\ p.token # None THEN Str(p.token) ELSE <<"None">>,
            Position(p))

expected(p, t, symbols) ==
    IF symbols # {} /\ t.symbol \notin symbols
    THEN wrong_symbol(p, t, FALSE) ELSE p

unexpected(p, t, symbols) ==
    IF symbols = {} \/ t.symbol \in symbols
    THEN wrong_symbol(p, t, FALSE) ELSE p

\* operator.replace(' ', '')
Unblank(w) == SelectSeq(w, LAMBDA c : c # " ")

\* int(literal), as the digits that print it
IntegerValue(w) ==
    LET nonzero == {k \in 1..Len(w) : w[k] # "0"}
    IN  IF nonzero = {} THEN <<"0">> ELSE SubSeq(w, Min(nonzero), Len(w))

\* literal.strip("'\"")
Unquote(w) ==
    LET keep == {k \in 1..Len(w) : w[k] \notin {"'", "\""}}
    IN  IF keep = {} THEN <<>> ELSE SubSeq(w, Min(keep), Max(keep))

\* the instance of the class registered for key, or a KeyError; the value
\* of a float or decimal literal is kept as the text of the literal
\* (float(literal) and Decimal(literal) are not worked out)
Instance(p, key, value) ==
    IF key \in DOMAIN symbol_table
    THEN [p EXCEPT !.next_token = NewToken(symbol_table[key], value)]
    ELSE Throw(p, "KeyError")

\* self.next_match = next(self.tokens)
Taken(p, m) == [p EXCEPT !.tokens = After(p.tokens, m), !.next_match = m]

\* the while loop of Parser.advance: Fetch takes the next match and
\* Classify makes the token of it, or goes round again after blanks
RECURSIVE Fetch(_)
Classify(p, m, w) ==
    CASE m = NoMatch ->
            Instance([p EXCEPT !.tokens = After(p.tokens, m)], EndSymbol,
                     <<"None">>)
      [] m.group = "operator" ->
            IF Unblank(w) \in DOMAIN symbol_table
            THEN Instance(Taken(p, m), Unblank(w), <<"None">>)
            ELSE Throw(Taken(p, m), "unknown operator")
      [] m.group = "literal" ->
            IF w[1] \in {"'", "\""}
            THEN Instance(Taken(p, m), StringSymbol, Unquote(w))
            ELSE IF \E k \in 1..Len(w) : w[k] \in {"e", "E"}
            THEN Instance(Taken(p, m), FloatSymbol, w)
            ELSE IF \E k \in 1..Len(w) : w[k] = "."
            THEN Instance(Taken(p, m), DecimalSymbol, w)
            ELSE Instance(Taken(p, m), IntegerSymbol, IntegerValue(w))
      [] m.group = "name" -> Instance(Taken(p, m), NameSymbol, w)
      [] m.group = "space" -> Fetch(Taken(p, m))

Matched(p, m) == Classify(p, m, Text(p.source, m))

Fetch(p) == Matched(p, NextMatch(tokenizer, p.source, p.tokens))

\* Parser.advance(*symbols)
advance(p, symbols) ==
    IF p.next_token.symbol = EndSymbol
    THEN ThrowAt(p, "Unexpected end of source", <<"None">>, Str(p.token),
                 <<Position(p)[1], Position(p)[2] - 1>>)
    ELSE IF p.next_token # None /\ Failed(expected(p, p.next_token, symbols))
    THEN expected(p, p.next_token, symbols)
    ELSE Fetch([p EXCEPT !.token = p.next_token, !.match = p.next_match])

\* what a method that has raised hands back
Fail(p) == [p |-> p, left |-> None]

\* rbp < self.next_token.lbp
Binds(rbp, t) == rbp < symbol_table[t.symbol].lbp

RECURSIVE expression(_, _)

\* self[0:] = self.parser.expression(rbp=bp),
Prefixed(t, e) == [p |-> e.p, left |-> [t EXCEPT !.operands = <<e.left>>]]

\* self[0:1] = left, self.parser.expression(rbp=bp)
Infixed(t, left, e) ==
    [p |-> e.p, left |-> [t EXCEPT !.operands = <<left, e.left>>]]

\* token.nud(), by the callable its class holds
nud(p, t) ==
    CASE symbol_table[t.symbol].nud.kind = "wrong_symbol" ->
            Fail(wrong_symbol(p, t, TRUE))
      [] symbol_table[t.symbol].nud.kind = "literal" -> [p |-> p, left |-> t]
      [] symbol_table[t.symbol].nud.kind = "prefix" ->
            Prefixed(t, expression(p, symbol_table[t.symbol].nud.bp))

\* token.led(left); the led of postfix stops in the debugger
\* (pdb.set_trace()) before it takes its operand
led(p, t, left) ==
    CASE symbol_table[t.symbol].led.kind = "wrong_symbol" ->
            Fail(wrong_symbol(p, t, TRUE))
      [] symbol_table[t.symbol].led.kind \in {"infix", "infixr"} ->
            Infixed(t, left, expression(p, symbol_table[t.symbol].led.bp))
      [] symbol_table[t.symbol].led.kind = "postfix" -> Fail(Throw(p, "pdb"))

\* the while loop of Parser.expression: While tests the lookahead, Led
\* runs the body with the token t and the parser a that advance left
RECURSIVE While(_, _)
Led(t, a, left, rbp) ==
    IF Failed(a) THEN Fail(a) ELSE While(led(a, t, left), rbp)

While(e, rbp) ==
    IF Failed(e.p) \/ ~Binds(rbp, e.p.next_token) THEN e
    ELSE Led(e.p.next_token, advance(e.p, {}), e.left, rbp)

\* left = token.nud() and the loop after it
Nud(t, a, rbp) == IF Failed(a) THEN Fail(a) ELSE While(nud(a, t), rbp)

\* Parser.expression(rbp)
expression(p, rbp) == Nud(p.next_token, advance(p, {}), rbp)

NoResult ==
    [kind |-> "none", token |-> None, error |-> "None",
     detail |-> NoDetail, lookahead |-> <<"None">>]

\* self.advance(); root_token = self.expression()
Root(a) == IF Failed(a) THEN Fail(a) ELSE expression(a, 0)

\* if self.next_token.symbol != '(end)': self.next_token.unexpected()
Ended(e) ==
    IF ~Failed(e.p) /\ e.p.next_token.symbol # EndSymbol
    THEN Fail(unexpected(e.p, e.p.next_token, {})) ELSE e

\* the finally clause, and what parse returns or raises; lookahead is
\* next_token when the try block was left
Finally(e) ==
    [p |-> [e.p EXCEPT !.tokens = NoTokens, !.next_token = None],
     result |-> [kind |-> IF Failed(e.p) THEN "error" ELSE "tree",
                 token |-> e.left,
                 error |-> e.p.error,
                 detail |-> e.p.detail,
                 lookahead |-> e.p.next_token.symbol]]

\* self.source = source; self.tokens = iter(self.tokenizer.finditer(source))
\* where the class has no tokenizer (None) the attribute lookup raises
Started(p) ==
    IF tokenizer.compiled THEN [p EXCEPT !.tokens = finditer]
    ELSE Throw(p, "AttributeError")

Advanced(p) == IF Failed(p) THEN p ELSE advance(p, {})

\* the instance attributes Parser.__init__ sets
New ==
    [tokens |-> NoTokens, token |-> None, match |-> NoMatch,
     next_token |-> None, next_match |-> NoMatch]

\* the instance attributes of the parser at hand
Self ==
    [tokens |-> tokens, token |-> token, match |-> match,
     next_token |-> next_token, next_match |-> next_match]

\* Parser.parse(source) on the instance self
ParseOn(self, src) ==
    Finally(Ended(Root(Advanced(Started(
        [source |-> src, tokens |-> self.tokens, token |-> self.token,
         match |-> self.match, next_token |-> self.next_token,
         next_match |-> self.next_match, error |-> "None",
         detail |-> NoDetail])))))

\* Parser.parse(source)
parse(src) == ParseOn(Self, src)

\* ------------------------------------------------ no parser, no context
\* the parser side while only a context is used
NoParser ==
    /\ symbol_table = begin.symbol_table
    /\ tokenizer = begin.tokenizer
    /\ classes = begin.classes
    /\ given = <<>>
    /\ source = <<>>
    /\ tokens = NoTokens
    /\ token = None
    /\ match = NoMatch
    /\ next_token = None
    /\ next_match = NoMatch
    /\ result = NoResult
    /\ found = <<>>

\* no generator of a nested evaluation
NoRun ==
    [fn |-> "none", state |-> "none", reverse |-> FALSE, ctx |-> 0,
     status |-> <<NoItem, 0, 0, "None">>, results |-> <<>>, k |-> 0,
     supplied |-> <<>>, walk |-> <<>>, pending |-> <<>>]

\* no schema is given
NoSchema ==
    /\ schema = [kids |-> <<>>, ref |-> <<>>]
    /\ elements = {}

\* no method has been called
NoCall ==
    /\ call = [fn |-> "none"]
    /\ ret = [kind |-> "none"]

\* the rest of the state while a context or a parser is used
NoOthers == NoCall /\ NoSchema

\* the names and the values of the variables of the dynamic context
VarNames == {"x"}
VarValues == {"a", "b"}
\* a dict of variables: "None" for a name that is no key of it
VarMaps == [VarNames -> VarValues \cup {"None"}]

\* XPathContext(root): self.variables = {}, no other context
NoVariables ==
    /\ variables = 1
    /\ dicts = <<[n \in VarNames |-> "None"]>>
    /\ ctxs = <<>>
    /\ copies = <<>>
    /\ nsmap = <<>>
    /\ nest = NoRun

\* the context side while only a parser is used
NoContext ==
    /\ doc = [n |-> 0, par |-> <<>>, last |-> "elem", mixed |-> FALSE,
              isdoc |-> FALSE]
    /\ pc = "none"
    /\ nodes = <<>>
    /\ children = <<>>
    /\ parent = 0
    /\ iterators = <<>>
    /\ ancestors = <<>>
    /\ root = 0
    /\ item = NoItem
    /\ position = 1
    /\ size = 1
    /\ axis = "None"
    /\ parent_map = [built |-> FALSE, id |-> 0, keys |-> {}]
    /\ gen = NoGen
    /\ pre = <<NoItem, 0, 0, "None">>
    /\ out = <<>>
    /\ NoVariables

\* XPathContext(root, ...) has called _build_nodes
InitCtx == BuildStart /\ NoParser /\ NoVariables /\ NoOthers

SpecCtx == InitCtx /\ [][NextCtx]_vars

\* ------------------------------------------- registering the symbols
\* the operator symbol the registrations are about
RegSymbols == {<<"+">>}
Bps == 0..MaxBp

ClassSide ==
    [symbol_table |-> symbol_table, tokenizer |-> tokenizer,
     classes |-> classes]

\* the highest lbp a registration of the symbol has given so far, from
\* the 0 of the Token class on
Given(table, symbol, bp) ==
    [s \in DOMAIN table |->
        CASE s = symbol /\ s \in DOMAIN given -> Max({bp, given[s]})
          [] s = symbol -> bp
          [] OTHER -> given[s]]

\* a class method has run and left K; bp is the lbp it passed
Registered(K, symbol, bp) ==
    /\ symbol_table' = K.symbol_table
    /\ tokenizer' = K.tokenizer
    /\ classes' = K.classes
    /\ given' = Given(K.symbol_table, symbol, bp)
    /\ UNCHANGED instvars
    /\ UNCHANGED ctxvars
    /\ UNCHANGED othervars

InitReg ==
    /\ symbol_table = begin.symbol_table
    /\ tokenizer = begin.tokenizer
    /\ classes = begin.classes
    /\ given = <<>>
    /\ source = <<>>
    /\ tokens = NoTokens
    /\ token = None
    /\ match = NoMatch
    /\ next_token = None
    /\ next_match = NoMatch
    /\ result = NoResult
    /\ found = <<>>
    /\ NoContext
    /\ NoOthers

\* Parser.symbol(s)
Symbol(s) == Registered(register(ClassSide, s, <<>>), s, 0)

\* Parser.register(s, lbp=.., rbp=.., label=..)
Register(s, lbp, rbp) ==
    Registered(register(ClassSide, s,
                        [lbp |-> lbp, rbp |-> rbp, label |-> "operator"]),
               s, lbp)

Literal(s, bp) == Registered(literal(ClassSide, s, bp), s, bp)
Prefix(s, bp) == Registered(prefix(ClassSide, s, bp), s, bp)
Infix(s, bp) == Registered(infix(ClassSide, s, bp), s, bp)
Infixr(s, bp) == Registered(infixr(ClassSide, s, bp), s, bp)
Postfix(s, bp) == Registered(postfix(ClassSide, s, bp), s, bp)
Method(s, bp, name) == Registered(method(ClassSide, s, bp, name), s, bp)
End == Registered(end(ClassSide), EndSymbol, 0)

NextReg ==
    \/ \E s \in RegSymbols : Symbol(s)
    \/ \E s \in RegSymbols, lbp \in Bps, rbp \in Bps : Register(s, lbp, rbp)
    \/ \E s \in RegSymbols, bp \in Bps : Literal(s, bp)
    \/ \E s \in RegSymbols, bp \in Bps : Prefix(s, bp)
    \/ \E s \in RegSymbols, bp \in Bps : Infix(s, bp)
    \/ \E s \in RegSymbols, bp \in Bps : Infixr(s, bp)
    \/ \E s \in RegSymbols, bp \in Bps : Postfix(s, bp)
    \/ \E s \in RegSymbols, bp \in Bps, name \in {"nud", "led"} :
          Method(s, bp, name)
    \/ End

SpecReg == InitReg /\ [][NextReg]_vars

\* ------------------------------------------------- parsing a source
\* the literal classes every parser of the model registers
Literals ==
    literal(literal(literal(literal(literal(begin, StringSymbol, 0),
        FloatSymbol, 0), DecimalSymbol, 0), IntegerSymbol, 0), NameSymbol, 0)

\* '+' and '*' by infix and nothing else
Arithmetic(plus, times) ==
    end(infix(infix(Literals, <<"+">>, plus), <<"*">>, times))

\* '+' by infix and '^' by infixr and nothing else
Powers(plus, power) ==
    end(infixr(infix(Literals, <<"+">>, plus), <<"^">>, power))

\* the three of them and the comparison '<='
Comparisons(plus, times, power) ==
    end(infix(infixr(infix(infix(Literals, <<"+">>, plus), <<"*">>, times),
                     <<"^">>, power), <<"<", "=">>, 5))

Grammars ==
    {Arithmetic(10, 20), Powers(10, 10), Comparisons(10, 20, 10),
     Comparisons(20, 10, 20)}

\* the words of a source, "name" standing for the next of a, b, c, ...
Lexemes == {"name", "+", "*", "^"}
Names == <<"a", "b", "c", "d", "e", "f", "g", "h", "i", "j">>

Word(pattern, k) ==
    IF pattern[k] = "name"
    THEN <<Names[Cardinality({j \in 1..k : pattern[j] = "name"})]>>
    ELSE <<pattern[k]>>

\* ' '.join(words)
RECURSIVE Phrase(_)
Phrase(words) ==
    IF words = <<>> THEN <<>>
    ELSE IF Len(words) = 1 THEN words[1]
    ELSE words[1] \o <<" ">> \o Phrase(Tail(words))

\* a op b op c ... with n operands
Chain(op, n) ==
    Phrase([k \in 1..(2 * n - 1) |->
               IF k % 2 = 1 THEN <<Names[(k + 1) \div 2]>> ELSE op])

Sources ==
    {Phrase([k \in 1..Len(pattern) |-> Word(pattern, k)]) :
        pattern \in UNION {[1..n -> Lexemes] : n \in 0..MaxTokens}}
    \cup {Chain(op, n) : op \in {<<"+">>, <<"^">>}, n \in 2..MaxChain}
    \cup {<<"1", " ", "+", " ", "2", " ", "*", " ", "3">>,
          <<"a", " ", "<", "=", " ", "b", " ", "+", " ", "c">>,
          <<"a", " ", "+", " ", "b", " ", "<", "=", " ", "c">>,
          <<"a", " ", ")">>,
          <<"a", " ", "+", " ", ")", " ", "b">>,
          <<"a", " ", ")", " ", "b">>,
          <<"0", "1", "+", "a">>}

\* a parser class whose registration is over, and Parser.__init__
InitParse ==
    /\ \E K \in Grammars :
          /\ symbol_table = K.symbol_table
          /\ tokenizer = K.tokenizer
          /\ classes = K.classes
          /\ given = [s \in DOMAIN K.symbol_table |-> K.symbol_table[s].lbp]
    /\ source = <<>>
    /\ tokens = NoTokens
    /\ token = None
    /\ match = NoMatch
    /\ next_token = None
    /\ next_match = NoMatch
    /\ result = NoResult
    /\ found = <<>>
    /\ NoContext
    /\ NoOthers

\* the caller's first parser.parse(src)
Parse(src) ==
    /\ result = NoResult
    /\ \E r \in {parse(src)} :
           /\ source' = r.p.source
           /\ tokens' = r.p.tokens
           /\ token' = r.p.token
           /\ match' = r.p.match
           /\ next_token' = r.p.next_token
           /\ next_match' = r.p.next_match
           /\ result' = r.result
    /\ UNCHANGED <<found, symbol_table, tokenizer, classes, given>>
    /\ UNCHANGED ctxvars
    /\ UNCHANGED othervars

NextParse == \E src \in Sources : Parse(src)

SpecParse == InitParse /\ [][NextParse]_vars

\* ----------------------------------------------- running the tokenizer
\* the symbols of each tokenizer of the model, registered one by one
RECURSIVE Registrations(_, _)
Registrations(K, symbols) ==
    IF symbols = <<>> THEN K
    ELSE Registrations(register(K, Head(symbols), <<>>), Tail(symbols))

SymbolSets ==
    {<<<<"<">>, <<"<", "=">>>>,
     <<<<"<">>, <<"<", "=">>, <<"<", "=", "=">>>>,
     <<<<":">>, <<"[">>, <<"]">>, <<"@">>, <<"-">>, <<"i", "s">>, <<"/">>>>}

TokGrammars == {end(Registrations(begin, symbols)) : symbols \in SymbolSets}

TokAlphabet == {"a", "<", "=", " "}

TokSources ==
    UNION {[1..n -> TokAlphabet] : n \in 1..MaxLen}
    \cup {<<"a", " ", "<", "=", " ", "b">>,
          <<"s", "c", "h", ":", "p", "a", "t", "t", "e", "r", "n", "[",
            "@", "i", "s", "-", "a", "]">>,
          <<"/", "i", "s", "-", "a">>,
          <<"/", "-", "i", "s", "-", "a">>}

InitTok ==
    /\ \E K \in TokGrammars :
          /\ symbol_table = K.symbol_table
          /\ tokenizer = K.tokenizer
          /\ classes = K.classes
          /\ given = [s \in DOMAIN K.symbol_table |-> K.symbol_table[s].lbp]
    /\ source = <<>>
    /\ tokens = NoTokens
    /\ token = None
    /\ match = NoMatch
    /\ next_token = None
    /\ next_match = NoMatch
    /\ result = NoResult
    /\ found = <<>>
    /\ NoContext
    /\ NoOthers

\* tokens = tokenizer.finditer(src)
Finditer(src) ==
    /\ source = <<>>
    /\ source' = src
    /\ tokens' = finditer
    /\ UNCHANGED <<token, match, next_token, next_match, result, found>>
    /\ UNCHANGED <<symbol_table, tokenizer, classes, given>>
    /\ UNCHANGED ctxvars
    /\ UNCHANGED othervars

\* next(tokens): one more match, or StopIteration
NextToken ==
    /\ tokens.live
    /\ \E m \in {NextMatch(tokenizer, source, tokens)} :
           /\ tokens' = After(tokens, m)
           /\ found' = IF m = NoMatch THEN found ELSE Append(found, m)
    /\ UNCHANGED <<source, token, match, next_token, next_match, result>>
    /\ UNCHANGED <<symbol_table, tokenizer, classes, given>>
    /\ UNCHANGED ctxvars
    /\ UNCHANGED othervars

NextTok ==
    \/ \E src \in TokSources : Finditer(src)
    \/ NextToken

SpecTok == InitTok /\ [][NextTok]_vars

\* ------------------------------- registering while a parser is in use
\* A parser class that has been completed and has an instance, then more
\* registrations, Parser.end, new instances and parses in any order.
UseSymbols == {<<"+">>, <<"%">>}

UseSources ==
    {<<"a">>, <<"a", " ", "+", " ", "b">>, <<"a", " ", "%", " ", "b">>}

\* the registered symbols a tokenizer is compiled from
OperatorSymbols(table) == {s \in DOMAIN table : s \notin SpecialSymbols}

TokenizerSymbols ==
    {tokenizer.multi[k] : k \in 1..Len(tokenizer.multi)}
    \cup {tokenizer.single[k] : k \in 1..Len(tokenizer.single)}

InitUse ==
    /\ \E K \in {Comparisons(1, 2, 1)} :
          /\ symbol_table = K.symbol_table
          /\ tokenizer = K.tokenizer
          /\ classes = K.classes
          /\ given = [s \in DOMAIN K.symbol_table |-> K.symbol_table[s].lbp]
    /\ source = <<>>
    /\ tokens = NoTokens
    /\ token = None
    /\ match = NoMatch
    /\ next_token = None
    /\ next_match = NoMatch
    /\ result = NoResult
    /\ found = <<>>
    /\ NoContext
    /\ NoOthers

\* infix(s, bp) with the symbol as a string
UseInfix(s, bp) == Registered(infix(ClassSide, s, bp), s, bp)

\* register(X, lbp=bp) with X a Token subclass written by the caller, with
\* the symbol s, lbp = rbp = bp and the led of an infix operator; for a
\* symbol of the table X is the class the table holds
UseRegisterClass(s, bp) ==
    Registered(
        register_class(ClassSide,
            IF s \in DOMAIN symbol_table THEN symbol_table[s]
            ELSE [Token EXCEPT !.symbol = s, !.lbp = bp, !.rbp = bp,
                               !.led = [kind |-> "infix", bp |-> bp]]
                 @@ [cls |-> 0],
            [lbp |-> bp]),
        s, bp)

UseEnd == Registered(end(ClassSide), EndSymbol, 0)

\* Parser(): Parser.__init__
UseNew ==
    /\ IF EndSymbol \notin DOMAIN symbol_table \/ ~tokenizer.compiled
       THEN /\ result' = [NoResult EXCEPT !.kind = "error",
                                          !.error = "ValueError"]
            /\ UNCHANGED <<source, tokens, token, match, next_token,
                           next_match>>
       ELSE /\ source' = <<>>
            /\ tokens' = NoTokens
            /\ token' = None
            /\ match' = NoMatch
            /\ next_token' = None
            /\ next_match' = NoMatch
            /\ result' = NoResult
    /\ UNCHANGED <<found, symbol_table, tokenizer, classes, given>>
    /\ UNCHANGED ctxvars
    /\ UNCHANGED othervars

\* parser.parse(src) on the instance at hand
UseParse(src) ==
    /\ \E r \in {parse(src)} :
           /\ source' = r.p.source
           /\ tokens' = r.p.tokens
           /\ token' = r.p.token
           /\ match' = r.p.match
           /\ next_token' = r.p.next_token
           /\ next_match' = r.p.next_match
           /\ result' = r.result
    /\ UNCHANGED <<found, symbol_table, tokenizer, classes, given>>
    /\ UNCHANGED ctxvars
    /\ UNCHANGED othervars

NextUse ==
    \/ \E s \in UseSymbols, bp \in Bps : UseInfix(s, bp)
    \/ \E s \in UseSymbols, bp \in Bps : UseRegisterClass(s, bp)
    \/ UseEnd
    \/ UseNew
    \/ \E src \in UseSources : UseParse(src)

SpecUse == InitUse /\ [][NextUse]_vars

\* ------------------------------------- parse after parse on one parser
\* the tokens of a source that is parsed on a parser used before
MaxAgain == 2

\* the sources of up to MaxAgain words, and a blank one
AgainSources ==
    {Phrase([k \in 1..Len(pattern) |-> Word(pattern, k)]) :
        pattern \in UNION {[1..n -> Lexemes] : n \in 0..MaxAgain}}
    \cup {<<" ">>, <<"a", " ", "<", "=", " ", "b">>}

\* parser.parse(src), for the first time or after other calls
NextAgain == \E src \in AgainSources : UseParse(src)

SpecAgain == InitParse /\ [][NextAgain]_vars

\* =================================================================
\* xpath_context.py: copies of the context and nested evaluations
\* how many copies of a context are made
MaxCopies == 1
\* the context a reference stands for: 0 is the context the caller made
Ctx(r) ==
    IF r = 0
    THEN [item |-> item, position |-> position, size |-> size,
          axis |-> axis, variables |-> variables, root |-> root]
    ELSE ctxs[r]

\* object.__new__(self.__class__): a reference no other object has, or
\* the same object once more
SameObject(heap, r) == r
NewObject(heap, r) == Len(heap) + 1

\* {k: v for k, v in self.variables.items()}: the dicts and the new dict,
\* or the same dict once more
SameDict(ds, d) == [heap |-> ds, ref |-> d]
DictComprehension(ds, d) == [heap |-> Append(ds, ds[d]), ref |-> Len(ds) + 1]

\* XPathContext.copy(clear_axis) on the context r: obj.__dict__ updated
\* from self.__dict__, then obj.axis and obj.variables
copy(r, clear_axis, d) ==
    [Ctx(r) EXCEPT !.axis = IF clear_axis THEN "None" ELSE @,
                   !.variables = d]

\* XPathContext.__copy__ on the context r
copy_(r, d) == [Ctx(r) EXCEPT !.axis = "None", !.variables = d]

\* the object obj is stored under the reference o
Stored(o, obj) ==
    IF o = 0
    THEN /\ item' = obj.item
         /\ position' = obj.position
         /\ size' = obj.size
         /\ axis' = obj.axis
         /\ variables' = obj.variables
         /\ ctxs' = ctxs
    ELSE /\ ctxs' = IF o > Len(ctxs) THEN Append(ctxs, obj)
                    ELSE [ctxs EXCEPT ![o] = obj]
         /\ UNCHANGED <<item, position, size, axis, variables>>

\* the references a caller of the context holds
Refs == {0} \cup SeqToSet(copies)

\* the references the code that runs now can reach: a selector reaches
\* the context it was called with and the copies it makes of it
Reach ==
    IF nest.state = "selecting" THEN {r \in Refs : r >= nest.ctx} ELSE Refs

\* XPathContext(root, item, variables=...) has called _build_nodes
InitCopy ==
    /\ BuildStart
    /\ doc.n = 1
    /\ ~doc.mixed
    /\ NoParser
    /\ variables = 1
    /\ dicts \in {<<d>> : d \in VarMaps}
    /\ ctxs = <<>>
    /\ copies = <<>>
    /\ nsmap = <<>>
    /\ nest = NoRun
    /\ NoOthers

\* context.copy(clear_axis)
Copy(r, clear_axis) ==
    /\ pc = "idle"
    /\ r \in Reach
    /\ Len(copies) < MaxCopies
    /\ \E d \in {DictComprehension(dicts, Ctx(r).variables)} :
       \E o \in {NewObject(ctxs, r)} :
          /\ dicts' = d.heap
          /\ Stored(o, copy(r, clear_axis, d.ref))
          /\ copies' = Append(copies, o)
    /\ UNCHANGED <<nsmap, doc, pc, nodes, children, parent, iterators, ancestors,
                   root, parent_map, gen, pre, out, nest>>
    /\ UNCHANGED parservars
    /\ UNCHANGED othervars

\* copy.copy(context)
CopyCopy(r) ==
    /\ pc = "idle"
    /\ r \in Reach
    /\ Len(copies) < MaxCopies
    /\ \E d \in {DictComprehension(dicts, Ctx(r).variables)} :
       \E o \in {NewObject(ctxs, r)} :
          /\ dicts' = d.heap
          /\ Stored(o, copy_(r, d.ref))
          /\ copies' = Append(copies, o)
    /\ UNCHANGED <<nsmap, doc, pc, nodes, children, parent, iterators, ancestors,
                   root, parent_map, gen, pre, out, nest>>
    /\ UNCHANGED parservars
    /\ UNCHANGED othervars

\* what a nested evaluation assigns to the context it was handed
Focuses ==
    {[item |-> AtomItem, position |-> 1, size |-> 1, axis |-> "self"],
     [item |-> NodeItem(root), position |-> 2, size |-> 2, axis |-> "child"]}

\* a nested evaluation on a copy: context.item, context.position,
\* context.size and context.axis are assigned
SetFocus(r, f) ==
    /\ pc = "idle"
    /\ r \in Reach \ {0}
    /\ Stored(r, [Ctx(r) EXCEPT !.item = f.item, !.position = f.position,
                                !.size = f.size, !.axis = f.axis])
    /\ UNCHANGED <<nsmap, doc, pc, nodes, children, parent, iterators, ancestors,
                   root, parent_map, gen, pre, out, dicts, copies, nest>>
    /\ UNCHANGED parservars
    /\ UNCHANGED othervars

\* a nested evaluation on a copy: context.variables[name] = value
Bind(r, name, value) ==
    /\ pc = "idle"
    /\ r \in Reach \ {0}
    /\ dicts' = [dicts EXCEPT ![Ctx(r).variables][name] = value]
    /\ UNCHANGED <<nsmap, doc, pc, nodes, children, parent, iterators, ancestors,
                   root, item, position, size, axis, parent_map, gen, pre,
                   out, variables, ctxs, copies, nest>>
    /\ UNCHANGED parservars
    /\ UNCHANGED othervars

\* the tokens inner_focus_select is called with
Tokens ==
    {[label |-> "axis", reverse_axis |-> TRUE],
     [label |-> "axis", reverse_axis |-> FALSE],
     [label |-> "function", reverse_axis |-> FALSE]}

\* what a selector yields
ResultItems == {NodeItem(root), AtomItem}
\* the sequences of items the selectors yield
Selections == {<<>>, <<AtomItem>>, <<NodeItem(root), AtomItem>>}

\* context.inner_focus_select(token): the generator is made
InnerFocusSelect(tok) ==
    /\ pc = "idle"
    /\ nest.state = "none"
    /\ nest' = [NoRun EXCEPT
                   !.fn = "inner_focus_select", !.state = "created",
                   !.reverse = tok.label = "axis" /\ tok.reverse_axis]
    /\ out' = <<>>
    /\ UNCHANGED <<nsmap, doc, pc, nodes, children, parent, iterators, ancestors,
                   root, item, position, size, axis, parent_map, gen, pre,
                   variables, dicts, ctxs, copies>>
    /\ UNCHANGED parservars
    /\ UNCHANGED othervars

\* the first next(): status is saved, token.select is called with
\* self.copy(clear_axis=False)
SelectEnter ==
    /\ nest.fn = "inner_focus_select"
    /\ nest.state = "created"
    /\ Len(copies) < MaxCopies
    /\ \E d \in {DictComprehension(dicts, variables)} :
       \E o \in {NewObject(ctxs, 0)} :
          /\ dicts' = d.heap
          /\ Stored(o, copy(0, FALSE, d.ref))
          /\ copies' = Append(copies, o)
          /\ nest' = [nest EXCEPT !.state = "selecting", !.ctx = o,
                                  !.status = <<item, size, position, axis>>]
    /\ UNCHANGED <<nsmap, doc, pc, nodes, children, parent, iterators, ancestors,
                   root, parent_map, gen, pre, out>>
    /\ UNCHANGED parservars
    /\ UNCHANGED othervars

\* the selector yields x, the list comprehension takes it
SelectYield(x) ==
    /\ nest.state = "selecting"
    /\ \E s \in Selections :
          /\ Len(s) > Len(nest.results)
          /\ SubSeq(s, 1, Len(nest.results) + 1) = Append(nest.results, x)
    /\ nest' = [nest EXCEPT !.results = Append(@, x)]
    /\ UNCHANGED <<nsmap, doc, pc, nodes, children, parent, iterators, ancestors,
                   root, item, position, size, axis, parent_map, gen, pre,
                   out, variables, dicts, ctxs, copies>>
    /\ UNCHANGED parservars
    /\ UNCHANGED othervars

\* the position every result would have without the reverse branch
Enumerated(reverse, n) == 1

\* the position at the first yield: self.size = self.position =
\* len(results) of a reverse axis, enumerate(results, start=1) otherwise
Start(reverse, n) == IF reverse THEN n ELSE 1

\* the position at the yield after the k-th: self.position -= 1 of a
\* reverse axis, the next number of enumerate otherwise
Step(reverse, p, k) == IF reverse THEN p - 1 ELSE k + 1

\* the statement after the last yield of inner_focus_select
Outer(status) ==
    /\ item' = status[1]
    /\ size' = status[2]
    /\ position' = status[3]
    /\ axis' = status[4]

\* the selector is exhausted: self.axis = None, the size and the position
\* are set and the loop yields the first result, or ends
SelectDone ==
    /\ nest.state = "selecting"
    /\ IF nest.results = <<>>
       THEN /\ Outer(nest.status)
            /\ nest' = [nest EXCEPT !.state = "done"]
            /\ out' = out
       ELSE /\ axis' = "None"
            /\ size' = Len(nest.results)
            /\ position' = Start(nest.reverse, Len(nest.results))
            /\ item' = nest.results[1]
            /\ nest' = [nest EXCEPT !.state = "suspended", !.k = 1]
            /\ out' = Append(out, nest.results[1])
    /\ UNCHANGED <<nsmap, doc, pc, nodes, children, parent, iterators, ancestors,
                   root, parent_map, gen, pre, variables, dicts, ctxs,
                   copies>>
    /\ UNCHANGED parservars
    /\ UNCHANGED othervars

\* next() after a yield: the next result, or the end of the loop
SelectNext ==
    /\ nest.fn = "inner_focus_select"
    /\ nest.state = "suspended"
    /\ IF nest.k < Len(nest.results)
       THEN /\ position' = Step(nest.reverse, position, nest.k)
            /\ item' = nest.results[nest.k + 1]
            /\ nest' = [nest EXCEPT !.k = @ + 1]
            /\ out' = Append(out, nest.results[nest.k + 1])
            /\ UNCHANGED <<size, axis>>
       ELSE /\ Outer(nest.status)
            /\ nest' = [nest EXCEPT !.state = "done"]
            /\ out' = out
    /\ UNCHANGED <<nsmap, doc, pc, nodes, children, parent, iterators, ancestors,
                   root, parent_map, gen, pre, variables, dicts, ctxs,
                   copies>>
    /\ UNCHANGED parservars
    /\ UNCHANGED othervars

NextCopy ==
    \/ BuildPop
    \/ \E arg \in {NoItem, AtomItem}, ax \in ArgAxes : InitFocus(arg, ax)
    \/ \E r \in Refs, b \in BOOLEAN : Copy(r, b)
    \/ \E r \in Refs : CopyCopy(r)
    \/ \E r \in Refs, f \in Focuses : SetFocus(r, f)
    \/ \E r \in Refs, n \in VarNames, v \in VarValues : Bind(r, n, v)
    \/ \E tok \in Tokens : InnerFocusSelect(tok)
    \/ SelectEnter
    \/ \E x \in ResultItems : SelectYield(x)
    \/ SelectDone
    \/ SelectNext

SpecCopy == InitCopy /\ [][NextCopy]_vars

\* ----------------------- the namespace nodes and the attribute nodes
\* elem.nsmap: none for an ElementTree element, the prefixes in scope for
\* an lxml element
NsMaps == {<<>>, <<"xml">>, <<"p">>, <<"p", "xml">>, <<"None", "p">>}

\* XPathContext(root) has called _build_nodes
InitNs ==
    /\ BuildStart
    /\ NoParser
    /\ variables = 1
    /\ dicts = <<[n \in VarNames |-> "None"]>>
    /\ ctxs = <<>>
    /\ copies = <<>>
    /\ nsmap \in NsMaps
    /\ nest = NoRun
    /\ NoOthers

\* node.namespace_nodes is read
GetNamespaceNodes(i) ==
    /\ pc = "built"
    /\ nodes[i].kind = "element"
    /\ nodes' = BuildNamespaceNodes(nodes, i)
    /\ UNCHANGED <<doc, pc, children, parent, iterators, ancestors, root,
                   item, position, size, axis, parent_map, gen, pre, out>>
    /\ UNCHANGED parservars
    /\ UNCHANGED othervars
    /\ UNCHANGED evalvars

\* node.attributes is read
GetAttributes(i) ==
    /\ pc = "built"
    /\ nodes[i].kind = "element"
    /\ nodes' = BuildAttributes(nodes, i)
    /\ UNCHANGED <<doc, pc, children, parent, iterators, ancestors, root,
                   item, position, size, axis, parent_map, gen, pre, out>>
    /\ UNCHANGED parservars
    /\ UNCHANGED othervars
    /\ UNCHANGED evalvars

NextNs ==
    \/ BuildPop
    \/ BuildChild
    \/ \E i \in 1..Len(nodes) : GetNamespaceNodes(i)
    \/ \E i \in 1..Len(nodes) : GetAttributes(i)

SpecNs == InitNs /\ [][NextNs]_vars

\* ------------------------------------------------------ XPathContext.iter
\* list(context.iter()) on a built context, between reads of the namespace
\* and attribute lists of its elements: out is the list it returns.
ContextIter ==
    /\ pc = "built"
    /\ out' = NodeIter(nodes, root)
    /\ UNCHANGED <<doc, pc, nodes, children, parent, iterators, ancestors,
                   root, item, position, size, axis, parent_map, gen, pre>>
    /\ UNCHANGED parservars
    /\ UNCHANGED othervars
    /\ UNCHANGED evalvars

NextIter ==
    \/ BuildPop
    \/ BuildChild
    \/ \E i \in 1..Len(nodes) : GetNamespaceNodes(i)
    \/ \E i \in 1..Len(nodes) : GetAttributes(i)
    \/ ContextIter

SpecIter == InitNs /\ [][NextIter]_vars

\* ---------------------------------------------- XPathContext.iter_product
\* The generator of iter_product(selectors, varnames) is the record nest.
\* A selector is the sequence of values its generator yields on the
\* context, iterators[k] is how many of them the k-th generator has
\* yielded, and k counts from 1.
MaxDimension == 2

ForNames == {"x", "y"}

RECURSIVE UpTo(_, _)
UpTo(S, n) ==
    IF n = 0 THEN {<<>>}
    ELSE LET shorter == UpTo(S, n - 1)
         IN  shorter \cup {Append(s, x) : s \in shorter, x \in S}

\* what one selector yields: nothing, one value, two values
SelectorResults ==
    {<<>>, <<"a">>, <<"b">>, <<"a", "a">>, <<"a", "b">>, <<"b", "a">>,
     <<"b", "b">>}

\* the results of the selectors of a for, some or every expression
SelectorLists == {s \in UpTo(SelectorResults, MaxDimension) : s # <<>>}

\* varnames: None, or the names of its variables, where the same name
\* may be given twice
NoVarnames == [none |-> TRUE, names |-> <<>>]

VarnameLists(n) ==
    {NoVarnames}
        \cup {[none |-> FALSE, names |-> v] :
                v \in {w \in UpTo(ForNames, n) : Len(w) = n}}

NoProduct ==
    [fn |-> "none", state |-> "none", selectors |-> <<>>,
     varnames |-> NoVarnames,
     iterators |-> <<>>, prod |-> <<>>, k |-> 0, vars |-> <<>>]

\* iterators[k] = selectors[k](self): the generator is made anew
Kept(its, k) == its

Recreated(its, k) == [its EXCEPT ![k] = 0]

\* self.variables[varnames[k]] = value, unless varnames is None or short
Assigned(p, value) ==
    IF p.varnames.none THEN p.vars
    ELSE IF p.k > Len(p.varnames.names) THEN p.vars
    ELSE [p.vars EXCEPT ![p.varnames.names[p.k]] = value]

\* one turn of the while loop when next(iterators[k]) raises StopIteration
Back(p) ==
    [p EXCEPT !.iterators = Recreated(p.iterators, p.k), !.k = p.k - 1]

\* one turn of the while loop when next(iterators[k]) returns a value
TakeValue(p, value) ==
    [p EXCEPT !.iterators[p.k] = @ + 1, !.vars = Assigned(p, value),
              !.prod[p.k] = value]

\* the while loop from one turn to the next yield or to the return
RECURSIVE Turns(_)
Turns(p) ==
    IF p.iterators[p.k] >= Len(p.selectors[p.k])
    THEN IF p.k = 1 THEN [p EXCEPT !.state = "done"]
         ELSE CHOOSE r \in {Turns(q) : q \in {Back(p)}} : TRUE
    ELSE IF p.k = Len(p.selectors)
    THEN [TakeValue(p, p.selectors[p.k][p.iterators[p.k] + 1])
             EXCEPT !.state = "suspended"]
    ELSE CHOOSE r \in
            {Turns([q EXCEPT !.k = p.k + 1]) :
                q \in {TakeValue(p, p.selectors[p.k][p.iterators[p.k] + 1])}} :
            TRUE

\* a context of a one-element tree with fresh variables
InitProduct ==
    /\ BuildStart
    /\ doc.n = 1
    /\ ~doc.mixed
    /\ NoParser
    /\ variables = 1
    /\ dicts = <<[n \in ForNames |-> "None"]>>
    /\ ctxs = <<>>
    /\ copies = <<>>
    /\ nsmap = <<>>
    /\ nest = NoProduct
    /\ NoOthers

\* context.iter_product(selectors, varnames): the generator is made
IterProduct ==
    /\ pc = "idle"
    /\ nest.state = "none"
    /\ \E selectors \in SelectorLists :
          \E varnames \in VarnameLists(Len(selectors)) :
              nest' = [NoProduct EXCEPT !.fn = "iter_product",
                                        !.state = "created",
                                        !.selectors = selectors,
                                        !.varnames = varnames]
    /\ pre' = <<item, position, size, axis>>
    /\ out' = <<>>
    /\ UNCHANGED <<doc, pc, nodes, children, parent, iterators, ancestors,
                   root, item, position, size, axis, parent_map, gen>>
    /\ UNCHANGED <<variables, dicts, ctxs, copies, nsmap>>
    /\ UNCHANGED parservars
    /\ UNCHANGED othervars

\* the generator as its first next() finds it: with its iterators made
Entered(g, d) ==
    IF g.state = "created"
    THEN [g EXCEPT !.iterators = [j \in 1..Len(g.selectors) |-> 0],
                   !.prod = [j \in 1..Len(g.selectors) |-> "None"],
                   !.k = 1, !.vars = d]
    ELSE [g EXCEPT !.vars = d]

\* next() on the generator of iter_product
ProductNext ==
    /\ nest.fn = "iter_product"
    /\ nest.state \in {"created", "suspended"}
    /\ \E q \in {Turns(Entered(nest, dicts[variables]))} :
           /\ nest' = q
           /\ dicts' = [dicts EXCEPT ![variables] = q.vars]
           /\ out' = IF q.state = "suspended" THEN Append(out, q.prod)
                     ELSE out
    /\ UNCHANGED <<doc, pc, nodes, children, parent, iterators, ancestors,
                   root, item, position, size, axis, parent_map, gen, pre>>
    /\ UNCHANGED <<variables, ctxs, copies, nsmap>>
    /\ UNCHANGED parservars
    /\ UNCHANGED othervars

NextProduct ==
    \/ BuildPop
    \/ InitFocus(NoItem, "None")
    \/ IterProduct
    \/ ProductNext

SpecProduct == InitProduct /\ [][NextProduct]_vars

\* the consumer keeps calling next() until the generator ends
FairProduct == SpecProduct /\ WF_vars(NextProduct)

\* --------------------------------------------- XPathContext.iter_results
\* how many items the caller's collection of results holds
MaxResults == 2

\* the element node of the root element
RootElement == IF nodes[root].kind = "document" THEN 2 ELSE root

\* what a caller's collection of results holds: nodes of the tree,
\* elements, element nodes made by the caller, atomic values
ResultMembers ==
    {NodeItem(i) : i \in 1..Len(nodes)}
    \cup {RawItem(e) : e \in 1..doc.n}
    \cup {WrapItem(e) : e \in {x \in 1..doc.n : ~CallableTag(doc, x)}}
    \cup {AtomItem}

Results ==
    {s \in UNION {[1..n -> ResultMembers] : n \in 0..MaxResults} :
        \A i, j \in 1..Len(s) : i # j => s[i] # s[j]}

\* the element a context item on an element stands for
ElemOf(it) == IF it.k = "node" THEN nodes[it.a].elem ELSE it.a

\* list.remove(x): without the first x
RECURSIVE Remove(_, _)
Remove(s, x) ==
    IF s = <<>> THEN <<>>
    ELSE IF Head(s) = x THEN Tail(s)
    ELSE <<Head(s)>> \o Remove(Tail(s), x)

\* the documents iter_results walks: those of the results, then the root,
\* each once
RECURSIVE Unvisited(_, _)
Unvisited(s, visited_docs) ==
    IF s = <<>> THEN <<>>
    ELSE IF Head(s) \in visited_docs THEN Unvisited(Tail(s), visited_docs)
    ELSE <<Head(s)>> \o Unvisited(Tail(s), visited_docs \cup {Head(s)})

Documents(results) ==
    Unvisited(SelectSeq(results, IsDocumentNode) \o <<NodeItem(root)>>, {})

\* for doc in documents: self.root.iter(), one after the other
RECURSIVE Walk(_)
Walk(documents) ==
    IF documents = <<>> THEN <<>>
    ELSE Seq2Items(NodeIter(nodes, Head(documents).a))
         \o Walk(Tail(documents))

\* what the loop body yields for the item it of the walk
Yields(it, results) ==
    IF \E j \in 1..Len(results) : results[j] = it THEN <<it>>
    ELSE IF is_etree_element(it)
    THEN SelectSeq(results, LAMBDA x : IsElementNode(x) /\ ElemOf(x) = it.a)
    ELSE <<>>

\* the first place after k of the walk where the loop body yields, 0 if
\* there is none
NextYield(walk, k, results) ==
    IF \E j \in (k + 1)..Len(walk) : Yields(walk[j], results) # <<>>
    THEN Min({j \in (k + 1)..Len(walk) : Yields(walk[j], results) # <<>>})
    ELSE 0

\* context.iter_results(results): the generator is made
IterResults(results) ==
    /\ pc = "idle"
    /\ nest.state = "none"
    /\ nest' = [NoRun EXCEPT !.fn = "iter_results", !.state = "created",
                             !.results = results, !.supplied = results]
    /\ out' = <<>>
    /\ UNCHANGED <<doc, pc, nodes, children, parent, iterators, ancestors,
                   root, item, position, size, axis, parent_map, gen, pre,
                   variables, dicts, ctxs, copies, nsmap>>
    /\ UNCHANGED parservars
    /\ UNCHANGED othervars

\* the generator nst runs on to its next yield or to its end
Walked(nst) ==
    IF nst.pending # <<>>
    THEN /\ nest' = [nst EXCEPT !.state = "suspended",
                                !.pending = Tail(nst.pending)]
         /\ out' = Append(out, Head(nst.pending))
         /\ item' = nst.walk[nst.k]
         /\ root' = root
    ELSE \E j \in {NextYield(nst.walk, nst.k, nst.results)} :
            IF j = 0
            THEN /\ nest' = [nst EXCEPT !.state = "done"]
                 /\ out' = out
                 /\ root' = nst.status[1]
                 /\ item' = nst.status[2]
            ELSE /\ nest' = [nst EXCEPT
                               !.state = "suspended", !.k = j,
                               !.pending =
                                   Tail(Yields(nst.walk[j], nst.results))]
                 /\ out' = Append(out, Head(Yields(nst.walk[j], nst.results)))
                 /\ item' = nst.walk[j]
                 /\ root' = root

\* next() on the generator of iter_results
ResultsNext ==
    /\ nest.fn = "iter_results"
    /\ nest.state \in {"created", "suspended"}
    /\ IF nest.state = "created"
       THEN Walked([nest EXCEPT !.status = <<root, item>>,
                                !.walk = Walk(Documents(nest.results))])
       ELSE IF nest.walk[nest.k] = out[Len(out)]
       THEN Walked([nest EXCEPT !.results = Remove(@, out[Len(out)])])
       ELSE Walked(nest)
    /\ UNCHANGED <<doc, pc, nodes, children, parent, iterators, ancestors,
                   position, size, axis, parent_map, gen, pre,
                   variables, dicts, ctxs, copies, nsmap>>
    /\ UNCHANGED parservars
    /\ UNCHANGED othervars

NextResults ==
    \/ BuildPop
    \/ BuildChild
    \/ GetAttributes(RootElement)
    \/ InitFocus(NoItem, "None")
    \/ \E results \in Results : IterResults(results)
    \/ ResultsNext

SpecResults == InitCtx /\ [][NextResults]_vars

\* ------------------------------------------- XPathContext.get_parent
\* an lxml element that is no element of the tree: Item("lxml", 1, 0) has
\* the parent Item("lxml", 0, 0), which has none
LxmlItem(h) == Item("lxml", h, 0)

\* what get_parent is called with
Lookups ==
    {NodeItem(i) : i \in 1..Len(nodes)}
    \cup {RawItem(e) : e \in 1..doc.n}
    \cup {WrapItem(e) : e \in {x \in 1..doc.n : ~CallableTag(doc, x)}}
    \cup {AttrItem(0, 1), LxmlItem(0), LxmlItem(1)}

\* _elem.getparent(): None for an AttributeError or for a root
getparent(it) ==
    IF it.k = "lxml" /\ it.a > 0 THEN LxmlItem(it.a - 1) ELSE NoItem

\* context.get_parent(it): the parent is left in out
GetParent(it) ==
    /\ pc = "built"
    /\ IF IsXPathNode(it)
       THEN /\ out' = <<ParentOf(it)>>
            /\ parent_map' = parent_map
       ELSE /\ parent_map' = ParentMap(parent_map)
            /\ out' = IF it \in ParentMap(parent_map).keys
                      THEN <<MapLookup(it)>>
                      ELSE <<getparent(it)>>
    /\ UNCHANGED <<doc, pc, nodes, children, parent, iterators, ancestors,
                   root, item, position, size, axis, gen, pre>>
    /\ UNCHANGED parservars
    /\ UNCHANGED othervars
    /\ UNCHANGED evalvars

NextMap ==
    \/ BuildPop
    \/ BuildChild
    \/ \E it \in Lookups : GetParent(it)

SpecMap == InitCtx /\ [][NextMap]_vars

\* =================================================================
\* xpath_token.py: the default select of a token
\* what evaluate(context) returns: None, a list, or one value that is no
\* list
EvalResults ==
    {[kind |-> "None", items |-> <<>>]}
    \cup {[kind |-> "list", items |-> s] : s \in Selections}
    \cup {[kind |-> "value", items |-> <<x>>] : x \in ResultItems}

\* a select that assigns every item it yields to context.item
select_each(evaluated, context) ==
    [items |-> evaluated.items, assign |-> context]

\* XPathToken.select after item = self.evaluate(context): the items it
\* yields, and whether it assigns context.item
select(evaluated, context) ==
    IF evaluated.kind = "None" THEN [items |-> <<>>, assign |-> FALSE]
    ELSE IF evaluated.kind = "list"
    THEN [items |-> evaluated.items, assign |-> FALSE]
    ELSE [items |-> evaluated.items, assign |-> context]

\* token.select(context), or token.select() when context is FALSE: the
\* generator is made; evaluated is what the token's evaluate will return
TokenSelect(evaluated, context) ==
    /\ pc = "idle"
    /\ nest.state = "none"
    /\ nest' = [NoRun EXCEPT !.fn = "select", !.state = "created",
                             !.supplied = <<evaluated>>,
                             !.ctx = IF context THEN 0 ELSE -1]
    /\ pre' = <<item, position, size, axis>>
    /\ out' = <<>>
    /\ UNCHANGED <<doc, pc, nodes, children, parent, iterators, ancestors,
                   root, item, position, size, axis, parent_map, gen,
                   variables, dicts, ctxs, copies, nsmap>>
    /\ UNCHANGED parservars
    /\ UNCHANGED othervars

\* next() on the generator of select
TokenNext ==
    /\ nest.fn = "select"
    /\ nest.state \in {"created", "suspended"}
    /\ \E s \in {select(nest.supplied[1], nest.ctx = 0)} :
          IF nest.k < Len(s.items)
          THEN /\ item' = IF s.assign THEN s.items[nest.k + 1] ELSE item
               /\ out' = Append(out, s.items[nest.k + 1])
               /\ nest' = [nest EXCEPT !.state = "suspended", !.k = @ + 1]
          ELSE /\ nest' = [nest EXCEPT !.state = "done"]
               /\ UNCHANGED <<item, out>>
    /\ UNCHANGED <<doc, pc, nodes, children, parent, iterators, ancestors,
                   root, position, size, axis, parent_map, gen, pre,
                   variables, dicts, ctxs, copies, nsmap>>
    /\ UNCHANGED parservars
    /\ UNCHANGED othervars

NextSelect ==
    \/ BuildPop
    \/ BuildChild
    \/ \E arg \in ArgItems : InitFocus(arg, "None")
    \/ \E r \in EvalResults, c \in BOOLEAN : TokenSelect(r, c)
    \/ TokenNext

SpecSelect == InitCtx /\ [][NextSelect]_vars

\* ------------------------------------------------- the errors of a token
\* XPathToken.error and its shortcuts, and get_argument.  A call of one of
\* these methods is the variable call (the method and its arguments), what
\* it returned or raised is the variable ret.
XQT_ERRORS_NAMESPACE == "http://www.w3.org/2005/xqt-errors"

\* parser.namespaces, as far as an error code reads it: the URI of a
\* prefix, "None" for a prefix that is no key
Prefixes == {"err", "e", ""}

NamespaceMaps ==
    {ns \in [Prefixes -> {XQT_ERRORS_NAMESPACE, "other", "None"}] :
        /\ ns[""] # "other"
        /\ ns["e"] # "other"
        /\ ns["e"] = "None" \/ ns[""] = "None"}

\* the settings of a parser a token reads: XPath1Parser is version 1.0 in
\* compatibility mode, XPath2Parser takes compatibility_mode as an option
Parsers ==
    {p \in [compatibility_mode : BOOLEAN, version : {"1.0", "2.0"},
            namespaces : NamespaceMaps] :
        p.version = "1.0" => p.compatibility_mode}

Labels == {"function", "operator", "axis"}

XPathTokens == [label : Labels, parser : Parsers]

\* a value returned, an exception raised
Returns(value) == [kind |-> "return", value |-> value]
Raises(exception) == [kind |-> "raise", exception |-> exception]

\* an exception of Python that is no XPath error and has no code
PythonError(name) == [code |-> <<>>, message |-> name]

\* error_code: the code with the prefix of the error namespace, 'err'
\* first, else the one other prefix bound to it, bare for the empty prefix
\* and when no prefix is bound to it
error_code(self, code) ==
    LET ns == self.parser.namespaces
        bound == {pfx \in Prefixes : ns[pfx] = XQT_ERRORS_NAMESPACE}
    IN  IF ns["err"] = XQT_ERRORS_NAMESPACE THEN <<"err", code>>
        ELSE IF bound # {}
             THEN LET pfx == CHOOSE x \in bound : TRUE
                  IN  IF pfx # "" THEN <<pfx, code>> ELSE <<code>>
             ELSE <<code>>

\* the codes the shortcuts and get_argument pass are unprefixed keys of
\* XPATH_ERROR_CODES: error(code, message) is the exception of that code
\* holding the token
error(self, code, message) ==
    [code |-> error_code(self, code), message |-> message, token |-> self]

Helpers ==
    {"wrong_syntax", "wrong_value", "wrong_type", "missing_schema",
     "missing_context", "wrong_context_type", "missing_sequence",
     "missing_name", "missing_axis", "wrong_nargs", "wrong_step_result",
     "wrong_intermediate_step_result", "wrong_axis_argument",
     "wrong_sequence_type", "unknown_atomic_type", "wrong_target_type",
     "unknown_namespace"}

\* wrong_syntax(message, code): a function token always reports XPST0017
wrong_syntax_as_given(self, message, code) == error(self, code, message)

wrong_syntax(self, message, code) ==
    error(self, IF self.label = "function" THEN "XPST0017" ELSE code,
          IF message # "None" THEN message ELSE "unexpected")

missing_axis(self, message) ==
    IF self.parser.compatibility_mode
    THEN error(self, "XPST0010", message)
    ELSE error(self, "XPST0003", message)

\* the shortcuts that pass one literal code
CodeOf ==
    [wrong_value |-> "FOCA0002", wrong_type |-> "FORG0006",
     missing_schema |-> "XPST0001", missing_context |-> "XPDY0002",
     wrong_context_type |-> "XPTY0004", missing_sequence |-> "XPST0005",
     missing_name |-> "XPST0008", wrong_nargs |-> "XPST0017",
     wrong_step_result |-> "XPTY0018",
     wrong_intermediate_step_result |-> "XPTY0019",
     wrong_axis_argument |-> "XPTY0020", wrong_sequence_type |-> "XPDY0050",
     unknown_atomic_type |-> "XPST0051", wrong_target_type |-> "XPST0080",
     unknown_namespace |-> "XPST0081"]

shortcut(self, helper, message, code) ==
    IF helper = "wrong_syntax" THEN wrong_syntax(self, message, code)
    ELSE IF helper = "missing_axis" THEN missing_axis(self, message)
    ELSE error(self, CodeOf[helper], message)

\* ---------------------------------------------------------- get_argument
\* The items an operand yields and a context holds: Python values with
\* their class and what they spell.  NoneValue is None.
NoneValue == [class |-> "NoneType", value |-> "None"]
StrValue(s) == [class |-> "str", value |-> s]
IntValue(s) == [class |-> "int", value |-> s]
FloatValue(s) == [class |-> "float", value |-> s]
Untyped(s) == [class |-> "UntypedAtomic", value |-> s]
TextNodeOf(s) == [class |-> "TextNode", value |-> s]
\* a TypedElement whose value is None
TypedElementOfNone == [class |-> "TypedElement", value |-> "None"]
RootNode == [class |-> "ElementNode", value |-> "root"]

isinstance(obj, cls) == obj.class = cls

\* str(obj) of the values above
str(obj) ==
    IF obj.class = "ElementNode" THEN StrValue("ElementNode(...)")
    ELSE StrValue(obj.value)

\* float(obj): the number a numeric string spells, ValueError otherwise
float(obj) ==
    IF obj.class = "int" THEN Returns(FloatValue("1.0"))
    ELSE IF obj.class = "float" THEN Returns(obj)
    ELSE IF obj.class \in {"str", "UntypedAtomic"}
         THEN IF obj.value = "1" THEN Returns(FloatValue("1.0"))
              ELSE Raises(PythonError("ValueError"))
         ELSE Raises(PythonError("TypeError"))

\* int(obj)
int(obj) ==
    IF obj.class = "int" THEN Returns(obj)
    ELSE IF obj.class = "float" THEN Returns(IntValue("1"))
    ELSE IF obj.class \in {"str", "UntypedAtomic"}
         THEN IF obj.value = "1" THEN Returns(IntValue("1"))
              ELSE Raises(PythonError("ValueError"))
         ELSE Raises(PythonError("TypeError"))

\* cls(obj)
construct(cls, obj) ==
    IF cls = "str" THEN Returns(str(obj))
    ELSE IF cls = "float" THEN float(obj)
    ELSE int(obj)

\* data_value: fn:data() of an item
data_value(obj) ==
    IF obj.class = "TextNode" THEN Returns(Untyped(obj.value))
    ELSE IF obj.class = "TypedElement" THEN Returns(NoneValue)
    ELSE IF obj.class = "ElementNode" THEN Raises(PythonError("RuntimeError"))
    ELSE Returns(obj)

\* string_value: fn:string() of an item
string_value(obj) ==
    IF obj.class = "TypedElement" THEN StrValue("")
    ELSE IF obj.class = "TextNode" THEN StrValue(obj.value)
    ELSE str(obj)

\* number_value: fn:number() of an item, NaN for what float() rejects
number_value(obj) ==
    LET number ==
            float(IF obj.class \in {"TextNode", "TypedElement", "ElementNode"}
                  THEN string_value(obj) ELSE obj)
    IN  IF number.kind = "return" THEN number.value ELSE FloatValue("NaN")

\* the type promotion checking of an item that is no instance of cls
promoted(self, a, it) ==
    IF a.promote # "None" /\ isinstance(it, a.promote)
    THEN construct(a.cls, it)
    ELSE IF self.parser.compatibility_mode /\ a.cls = "str"
    THEN Returns(string_value(it))
    ELSE IF self.parser.compatibility_mode /\ a.cls = "float"
    THEN Returns(number_value(it))
    ELSE IF self.parser.version = "1.0"
    THEN Raises(error(self, "XPTY0004", "type"))
    ELSE LET value == data_value(it)
             cast == IF a.cls = "str" THEN Returns(str(value.value))
                     ELSE construct(a.cls, value.value)
         IN  IF value.kind = "raise" THEN value
             ELSE IF isinstance(value.value, a.cls) THEN value
             ELSE IF isinstance(value.value, "UntypedAtomic")
                     /\ cast.kind = "return"
             THEN cast
             ELSE Raises(error(self,
                               IF value.value = NoneValue THEN "FOTY0012"
                               ELSE "XPTY0004", "type"))

unchecked(self, a, it) == Returns(it)

checked(self, a, it) ==
    IF a.cls # "None" /\ ~isinstance(it, a.cls) THEN promoted(self, a, it)
    ELSE Returns(it)

\* get_argument(context, index, required, default_to_context, default, cls,
\* promote) of the token self.  a.operand is "missing" when self has no
\* operand of that index, else the items its select yields on the copy of
\* the context; a.context is "None" without a context, else its class, and
\* a.item and a.root are what the context holds.
get_argument(self, a) ==
    IF a.operand.missing
    THEN IF a.default_to_context
         THEN IF a.context = "None"
              THEN Raises(shortcut(self, "missing_context", "None", "None"))
              ELSE checked(self, a,
                           IF a.item # NoneValue THEN a.item ELSE a.root)
         ELSE IF a.required
              THEN Raises(error(self, "XPST0017", "missing argument"))
              ELSE Returns(NoneValue)
    ELSE LET results == a.operand.results
         IN  IF Len(results) > 1 /\ ~self.parser.compatibility_mode
                /\ a.context # "XPathSchemaContext"
             THEN Raises(shortcut(self, "wrong_context_type",
                                  "more than one item", "None"))
             ELSE IF results = <<>>
             THEN IF ~a.required THEN Returns(a.default)
                  ELSE Raises(error(self, "XPTY0004", "not empty required"))
             ELSE checked(self, a, results[1])

\* the calls of get_argument: an operand yields no None
MaxOperand == 2

OperandItems ==
    {StrValue("1"), IntValue("1"), Untyped("x"), TextNodeOf("1"),
     TypedElementOfNone}

RECURSIVE Sequences(_, _)
Sequences(S, n) ==
    IF n = 0 THEN {<<>>}
    ELSE LET shorter == Sequences(S, n - 1)
         IN  shorter \cup {Append(s, x) : s \in shorter, x \in S}

Operands ==
    {[missing |-> TRUE, results |-> <<>>]}
        \cup {[missing |-> FALSE, results |-> r] :
                r \in Sequences(OperandItems, MaxOperand)}

\* the arguments of a call: a context that is None holds no item, and
\* promote comes with a class to promote to
Contexts == {"None", "XPathContext", "XPathSchemaContext"}

Classes == {"None", "str", "float", "int"}

Arguments(operand, context, it, flags, default, cls, promote) ==
    [operand |-> operand, context |-> context, item |-> it,
     root |-> RootNode, required |-> flags[1],
     default_to_context |-> flags[2], default |-> default, cls |-> cls,
     promote |-> promote]

\* the parsers of the calls of get_argument: the error namespace bound to
\* 'err' or to no prefix at all
ArgParsers ==
    {p \in Parsers :
        /\ p.namespaces["e"] = "None" /\ p.namespaces[""] = "None"
        /\ p.namespaces["err"] # "other"}

Messages == {"None", "m"}

Codes == {"XPST0003", "XPST0017"}

\* a function token about to have get_argument called
ArgumentCall ==
    \E p \in ArgParsers, operand \in Operands, context \in Contexts,
       it \in {NoneValue, TextNodeOf("1")}, flags \in BOOLEAN \X BOOLEAN,
       default \in {NoneValue, StrValue("d")}, cls \in Classes,
       promote \in {"None", "int"} :
        /\ context = "None" => it = NoneValue
        /\ promote # "None" => cls \in {"float", "str"}
        /\ call = [fn |-> "get_argument",
                   self |-> [label |-> "function", parser |-> p],
                   args |-> Arguments(operand, context, it, flags, default,
                                      cls, promote)]

\* a token about to have one of its error shortcuts called
ShortcutCall ==
    \E t \in XPathTokens, h \in Helpers, msg \in Messages, c \in Codes :
        call = [fn |-> "shortcut", self |-> t,
                args |-> [helper |-> h, message |-> msg, code |-> c]]

\* a token about to have one of its methods called
InitCall ==
    /\ NoContext
    /\ NoParser
    /\ NoSchema
    /\ ArgumentCall \/ ShortcutCall
    /\ ret = [kind |-> "none"]

\* token.get_argument(context, ...) returns or raises
GetArgument ==
    /\ call.fn = "get_argument"
    /\ ret.kind = "none"
    /\ ret' = get_argument(call.self, call.args)
    /\ UNCHANGED <<call, ctxvars, parservars, schemavars>>

\* token.wrong_syntax(...), token.wrong_value(...), ... returns the error
Shortcut ==
    /\ call.fn = "shortcut"
    /\ ret.kind = "none"
    /\ ret' = Returns(shortcut(call.self, call.args.helper,
                               call.args.message, call.args.code))
    /\ UNCHANGED <<call, ctxvars, parservars, schemavars>>

NextCall ==
    \/ GetArgument
    \/ Shortcut

SpecCall == InitCall /\ [][NextCall]_vars

\* ------------------------------------------------- _build_schema_nodes
\* An XSD schema as _build_schema_nodes reads it.  The schema itself is
\* the declaration 1, the element declarations are 2..n; kids[e] is what
\* iter(e) yields and ref[e] the declaration e.ref, 0 for None.  A
\* reference has no content of its own and refers to a global declaration
\* that is no reference.
MaxDecls == 2
MaxKids == 2

\* the sequences in ascending order of the subsets of S
RECURSIVE Ascending(_)
Ascending(S) ==
    IF S = {} THEN {<<>>}
    ELSE LET x == CHOOSE y \in S : \A z \in S : y <= z
             rest == Ascending(S \ {x})
         IN  rest \cup {<<x>> \o s : s \in rest}

Schemas ==
    UNION {
        {s \in [n : {n},
                kids : [1..n -> {k \in Ascending(2..n) : Len(k) <= MaxKids}],
                ref : [1..n -> 0..n]] :
            /\ s.ref[1] = 0
            /\ \A e \in 2..n :
                  s.ref[e] # 0 =>
                      /\ s.ref[e] # e
                      /\ s.kids[e] = <<>>
                      /\ s.ref[s.ref[e]] = 0
                      /\ \E i \in DOMAIN s.kids[1] : s.kids[1][i] = s.ref[e]}
        : n \in 2..(MaxDecls + 1)}

\* _build_schema_nodes(root) before the while loop
InitSchema ==
    /\ schema \in Schemas
    /\ elements = {1}
    /\ doc = [n |-> 0, par |-> <<>>, last |-> "elem", mixed |-> FALSE,
              isdoc |-> FALSE]
    /\ pc = "schema"
    /\ nodes = <<ElementNode(1, 0)>>
    /\ parent = 1
    /\ root = 1
    /\ children = schema.kids[1]
    /\ iterators = <<>>
    /\ ancestors = <<>>
    /\ item = NoItem
    /\ position = 1
    /\ size = 1
    /\ axis = "None"
    /\ parent_map = [built |-> FALSE, id |-> 0, keys |-> {}]
    /\ gen = NoGen
    /\ pre = <<NoItem, 0, 0, "None">>
    /\ out = <<>>
    /\ NoParser
    /\ NoVariables
    /\ NoCall

\* one turn of the while loop when next(children) raises StopIteration
SchemaPop ==
    /\ pc = "schema"
    /\ children = <<>>
    /\ IF iterators = <<>>
       THEN /\ pc' = "built"
            /\ UNCHANGED <<children, parent, iterators, ancestors>>
       ELSE /\ children' = iterators[Len(iterators)]
            /\ parent' = ancestors[Len(ancestors)]
            /\ iterators' = SubSeq(iterators, 1, Len(iterators) - 1)
            /\ ancestors' = SubSeq(ancestors, 1, Len(ancestors) - 1)
            /\ pc' = pc
    /\ UNCHANGED <<doc, nodes, root, item, position, size, axis,
                   parent_map, gen, pre, out>>
    /\ UNCHANGED <<parservars, evalvars, callvars, schemavars>>

\* the declaration a new node descends into and what it marks as met: the
\* declaration itself, or the one it refers to when that is not met yet
Descent(s, met, elem) ==
    IF s.ref[elem] = 0 THEN elem
    ELSE IF s.ref[elem] \notin met THEN s.ref[elem]
    ELSE 0

\* one turn of the while loop when next(children) returns a declaration
SchemaChild ==
    /\ pc = "schema"
    /\ children # <<>>
    /\ LET elem == Head(children)
           child == Len(nodes) + 1
           into == Descent(schema, elements \cup {elem}, elem)
       IN  IF elem \in elements
           THEN /\ children' = Tail(children)
                /\ UNCHANGED <<nodes, parent, iterators, ancestors, elements>>
           ELSE /\ nodes' = AppendChild(Append(nodes, ElementNode(elem, parent)),
                                        parent, child)
                /\ IF into # 0
                   THEN /\ elements' = elements \cup {elem, into}
                        /\ ancestors' = Append(ancestors, parent)
                        /\ parent' = child
                        /\ iterators' = Append(iterators, Tail(children))
                        /\ children' = schema.kids[into]
                   ELSE /\ elements' = elements \cup {elem}
                        /\ children' = Tail(children)
                        /\ UNCHANGED <<parent, iterators, ancestors>>
    /\ UNCHANGED <<doc, pc, root, item, position, size, axis,
                   parent_map, gen, pre, out, schema>>
    /\ UNCHANGED <<parservars, evalvars, callvars>>

NextSchema ==
    \/ SchemaPop
    \/ SchemaChild

SpecSchema == InitSchema /\ [][NextSchema]_vars

\* the loop is one thread of control: it takes its next turn
FairSchema == SpecSchema /\ WF_vars(NextSchema)

\* ------------------------------------------------------- document order
\* Every place of the document in document order: the document, then for
\* each element the element, its attributes, its text and its children,
\* each child followed by its tail.
RECURSIVE DocOrder(_), DocOrderSeq(_)
DocOrder(e) ==
    <<Item("elem", e, 0)>>
    \o [j \in 1..NAttrib(doc, e) |-> Item("attr", e, j)]
    \o <<Item("text", e, 0)>>
    \o DocOrderSeq(Kids(doc, e))
DocOrderSeq(s) ==
    IF s = <<>> THEN <<>>
    ELSE DocOrder(Head(s)) \o <<Item("tail", Head(s), 0)>>
         \o DocOrderSeq(Tail(s))

FullOrder == <<Item("doc", 0, 0)>> \o DocOrder(1)

\* the place of the document an item stands for
Place(it) ==
    IF it.k = "node"
    THEN LET nd == nodes[it.a]
         IN  CASE nd.kind = "document" -> Item("doc", 0, 0)
               [] nd.kind = "attribute" ->
                      Item("attr", nodes[nd.parent].elem, nd.elem)
               [] nd.kind = "text" -> Item("tail", nd.elem, 0)
               [] OTHER -> Item("elem", nd.elem, 0)
    ELSE CASE it.k \in {"raw", "wrap"} -> Item("elem", it.a, 0)
           [] it.k = "attr" -> Item("attr", it.a, it.b)
           [] it.k = "text" /\ it.b = 0 -> Item("text", it.a, 0)
           [] it.k = "text" /\ it.b = 1 -> Item("tail", it.a, 0)
           [] it.k = "str" -> Item("tail", it.a, 0)
           [] OTHER -> it

\* 0 for an item that is no place of the document
DocKey(it) == IndexOf(FullOrder, Place(it))

Focus == <<item, position, size, axis>>

\* the nodes of the tree _build_nodes returned, in preorder
TreeNodes == NodeDescendants(nodes, root)

\* =============================================================== claims
\* the calls that walk a reverse axis
ReverseCall ==
    \/ gen.fn \in {"iter_ancestors", "iter_preceding"}
    \/ gen.fn = "iter_siblings" /\ gen.arg = "preceding-sibling"

\* C1: once an axis iterator has been fully drained, the context's
\* (item, position, size, axis) equal the values they had just before the
\* iterator was started, for every iterator and every kind of context item.
C1_DrainedIteratorRestoresFocus ==
    gen.state = "done" => Focus = pre

\* C2: if the consumer abandons an axis iterator after any number of
\* yielded items, the context's (item, position, size, axis) equal the
\* values held before the iteration began.
C2_AbandonedIteratorLeavesFocus ==
    gen.state = "abandoned" => Focus = pre

\* C3: in every tree _build_nodes returns, position(i) < position(j) if and
\* only if node i precedes node j in document order (preorder).
C3_PositionsFollowDocumentOrder ==
    pc # "build" =>
        \A a, b \in 1..Len(TreeNodes) :
            (nodes[TreeNodes[a]].position < nodes[TreeNodes[b]].position)
                <=> a < b

Returned(chars) == result.kind = "tree" /\ tree(result.token) = chars

InfixOps ==
    {s \in DOMAIN symbol_table : symbol_table[s].led.kind = "infix"}

InfixrOps ==
    {s \in DOMAIN symbol_table : symbol_table[s].led.kind = "infixr"}

\* the trees of a name and of an operator over two trees
Leaf(w) == <<"(">> \o w \o <<")">>
Binary(op, l, r) == <<"(">> \o op \o <<" ">> \o l \o <<" ">> \o r \o <<")">>

RECURSIVE LeftTree(_, _)
LeftTree(op, n) ==
    IF n = 1 THEN Leaf(<<Names[1]>>)
    ELSE Binary(op, LeftTree(op, n - 1), Leaf(<<Names[n]>>))

RECURSIVE RightTree(_, _, _)
RightTree(op, k, n) ==
    IF k = n THEN Leaf(<<Names[n]>>)
    ELSE Binary(op, Leaf(<<Names[k]>>), RightTree(op, k + 1, n))

Precedence ==
    /\ /\ <<"+">> \in InfixOps /\ symbol_table[<<"+">>].lbp = 10
       /\ <<"*">> \in InfixOps /\ symbol_table[<<"*">>].lbp = 20
       /\ source = <<"1", " ", "+", " ", "2", " ", "*", " ", "3">>
       => Returned(<<"(", "+", " ", "(", "1", ")", " ", "(", "*", " ",
                     "(", "2", ")", " ", "(", "3", ")", ")", ")">>)
    /\ \A p, q \in InfixOps :
          symbol_table[p].lbp < symbol_table[q].lbp =>
             /\ source = Phrase(<<<<"a">>, p, <<"b">>, q, <<"c">>>>)
                => Returned(Binary(p, Leaf(<<"a">>),
                                   Binary(q, Leaf(<<"b">>), Leaf(<<"c">>))))
             /\ source = Phrase(<<<<"a">>, q, <<"b">>, p, <<"c">>>>)
                => Returned(Binary(p, Binary(q, Leaf(<<"a">>), Leaf(<<"b">>)),
                                   Leaf(<<"c">>)))

\* C5: with '+' registered by infix at 10 and '*' at 20, "1 + 2 * 3"
\* parses to (+ (1) (* (2) (3))); for infix operators p and q with
\* bp(p) < bp(q), "a p b q c" parses to (p (a) (q (b) (c))) and
\* "a q b p c" to (p (q (a) (b)) (c)).
C5_ExpressionPrecedence == result.kind # "none" => Precedence

\* The same when the parser has a symbol of more than one character,
\* which is when its tokenizer has no empty alternative.
PrecedenceWithLongSymbol ==
    result.kind # "none" /\ tokenizer.multi # <<>> => Precedence

Associativity ==
    \A p \in InfixOps, r \in InfixrOps, n \in 2..MaxChain :
        symbol_table[p].lbp = symbol_table[r].lbp =>
           /\ source = Chain(p, n) => Returned(LeftTree(p, n))
           /\ source = Chain(r, n) => Returned(RightTree(r, 1, n))

\* C6: for an infix symbol and an infixr symbol of equal binding power, a
\* chain of the infix operator groups to the left and a chain of the
\* infixr operator groups to the right, whatever its length.
C6_ChainsAssociate == result.kind # "none" => Associativity

AssociativityWithLongSymbol ==
    result.kind # "none" /\ tokenizer.multi # <<>> => Associativity

\* some character after the last token parse has taken is not a blank
TrailingInput == \E i \in (match.end + 1)..Len(source) : source[i] \notin Spaces

\* the source ends with an infix or infixr operator, or holds no token
WantsMore ==
    \/ \A i \in 1..Len(source) : source[i] \in Spaces
    \/ \E op \in InfixOps \cup InfixrOps :
          /\ Len(source) > Len(op) + 1
          /\ SubSeq(source, Len(source) - Len(op), Len(source)) = <<" ">> \o op

\* C7: parse returns a tree only when the lookahead is the end symbol and
\* no input is left over, raises a syntax error otherwise, and raises one
\* where the source ends while an operand is due.
C7_ParseConsumesAll ==
    result.kind # "none" =>
        /\ result.kind = "error" =>
              result.error \in {"unexpected token", "unknown operator",
                                "Unexpected end of source"}
        /\ result.kind = "tree" =>
              result.lookahead = EndSymbol /\ ~TrailingInput
        /\ WantsMore => result.kind = "error"

\* What holds of it: a tree is returned only with the end symbol as the
\* lookahead and the iterator of the matches run out.
ParseTakesEveryToken ==
    result.kind = "tree" =>
        /\ result.lookahead = EndSymbol
        /\ NextMatch(tokenizer, source,
                     [live |-> TRUE, at |-> match.end + 1,
                      nonempty |-> FALSE]).group \in {"None", "space"}
        /\ WantsMore => FALSE

\* ---------------------------------------------- claims on the tokenizer
\* the caller has run the tokenizer over the whole source
Scanned == source # <<>> /\ ~tokens.live

\* the texts of the matches, blanks left out
TokenTexts ==
    LET kept == SelectSeq(found, LAMBDA m : m.group # "space")
    IN  [k \in 1..Len(kept) |-> Text(source, kept[k])]

\* where the pattern of the symbol w alone would end at i, -1 for no match
SymbolEnd(s, i, w) ==
    IF Len(w) > 1 THEN symbol_escape(s, i, w)
    ELSE IF StartsWith(s, i, w) THEN i ELSE -1

\* C8: with "<" and "<=" registered, "a <= b" gives the one operator
\* token "<="; no operator token ends before a registered symbol that
\* stands at the same place does, so no symbol is shadowed by a prefix.
C8_LongestSymbolFirst ==
    /\ /\ Scanned
       /\ {<<"<">>, <<"<", "=">>} \subseteq TokenizerSymbols
       /\ source = <<"a", " ", "<", "=", " ", "b">>
       => TokenTexts = <<<<"a">>, <<"<", "=">>, <<"b">>>>
    /\ \A k \in 1..Len(found) :
          found[k].group = "operator" =>
             \A w \in TokenizerSymbols :
                SymbolEnd(source, found[k].start, w) <= found[k].end

\* "a <= b" scanned to its end with "<" and "<=" registered, "<=" found
C8_Witness ==
    /\ Scanned
    /\ {<<"<">>, <<"<", "=">>} \subseteq TokenizerSymbols
    /\ source = <<"a", " ", "<", "=", " ", "b">>
    /\ \E k \in 1..Len(found) :
          /\ found[k].group = "operator"
          /\ Text(source, found[k]) = <<"<", "=">>

\* C9: with ':', '[', ']', '@', '-' and 'is' registered, the tokenizer
\* gives sch : pattern [ @ is-a ] for "sch:pattern[@is-a]", / is-a for
\* "/is-a" and / - is-a for "/-is-a".
C9_NamesWithColonAndHyphen ==
    /\ Scanned
    /\ {<<":">>, <<"[">>, <<"]">>, <<"@">>, <<"-">>, <<"i", "s">>}
          \subseteq TokenizerSymbols
    => /\ source = <<"s", "c", "h", ":", "p", "a", "t", "t", "e", "r", "n",
                     "[", "@", "i", "s", "-", "a", "]">>
          => TokenTexts = <<<<"s", "c", "h">>, <<":">>,
                            <<"p", "a", "t", "t", "e", "r", "n">>, <<"[">>,
                            <<"@">>, <<"i", "s", "-", "a">>, <<"]">>>>
       /\ source = <<"/", "i", "s", "-", "a">>
          => TokenTexts = <<<<"/">>, <<"i", "s", "-", "a">>>>
       /\ source = <<"/", "-", "i", "s", "-", "a">>
          => TokenTexts = <<<<"/">>, <<"-">>, <<"i", "s", "-", "a">>>>

\* ------------------------------------------- claims on the symbol table
\* what a registration leaves of the class of s: the class and its
\* symbol, rbp and label as they were, and an lbp that has not gone down
\* and is the highest lbp any registration of the symbol has passed
ClassKept(s) ==
    /\ s \in DOMAIN symbol_table'
    /\ symbol_table'[s].cls = symbol_table[s].cls
    /\ symbol_table'[s].symbol = symbol_table[s].symbol
    /\ symbol_table'[s].rbp = symbol_table[s].rbp
    /\ symbol_table'[s].label = symbol_table[s].label
    /\ symbol_table'[s].lbp >= symbol_table[s].lbp
    /\ symbol_table'[s].lbp = given'[s]

\* a nud or led that a registration has set is still the one of the class
CallablesKept(s) ==
    /\ symbol_table[s].nud # WrongSymbol
          => symbol_table'[s].nud = symbol_table[s].nud
    /\ symbol_table[s].led # WrongSymbol
          => symbol_table'[s].led = symbol_table[s].led

\* C10 as stated: a registration for a symbol already registered never
\* replaces its token class or its symbol and never lowers or replaces an
\* attribute the class has: it only raises lbp, to the maximum of the
\* values given, or attaches callables.
C10_RegisterReplacesNothing ==
    [][\A s \in DOMAIN symbol_table : ClassKept(s) /\ CallablesKept(s)]_vars

\* C10 as amended: a registration leaves every class already in the symbol
\* table in place, with its symbol, its rbp and its label; its lbp never
\* goes down and is the highest lbp any registration of the symbol has
\* passed; a nud or led it passes takes the place of the one set before.
C10_RegisterKeepsTheClass ==
    [][\A s \in DOMAIN symbol_table : ClassKept(s)]_vars

\* '+' was made by a registration at 2 that set no nud and no label, and
\* the infix registration at 1 that came after it left lbp and rbp at 2
C10_Witness ==
    /\ <<"+">> \in DOMAIN symbol_table
    /\ symbol_table[<<"+">>].lbp = 2
    /\ symbol_table[<<"+">>].rbp = 2
    /\ symbol_table[<<"+">>].led = [kind |-> "infix", bp |-> 1]
    /\ symbol_table[<<"+">>].nud = WrongSymbol
    /\ symbol_table[<<"+">>].label = "None"

\* --------------------------------- claims on the tokenizer's rebuilding
\* a step that is a call of parse
ParseStep == \E src \in UseSources : UseParse(src)

\* the tokenizer is compiled from all the registered symbols
Fresh == TokenizerSymbols = OperatorSymbols(symbol_table)

\* the new symbol '%' is an infix operator that binds
PercentBinds ==
    /\ <<"%">> \in DOMAIN symbol_table
    /\ symbol_table[<<"%">>].led.kind = "infix"
    /\ symbol_table[<<"%">>].lbp > 0

\* C11: registering a new symbol invalidates the compiled tokenizer and it
\* is rebuilt before its next use: no parse runs with a tokenizer compiled
\* from a symbol set that lacks a registered symbol, and a parse after the
\* registration recognises the new symbol.
C11_NoParseWithStaleTokenizer ==
    [][ParseStep /\ tokenizer.compiled =>
          /\ Fresh
          /\ PercentBinds /\ source' = <<"a", " ", "%", " ", "b">>
                => result'.kind = "tree"
                   /\ tree(result'.token) =
                         Binary(<<"%">>, Leaf(<<"a">>), Leaf(<<"b">>))]_vars

\* ------------------------------------------------ claims on single axes
\* the places of the document the generator has yielded
OutPlaces == [j \in 1..Len(out) |-> Place(out[j])]

\* the item the generator was started on is an element (a node of the
\* tree, a node made by the caller or an unwrapped element)
OnElement(it) ==
    \/ IsElementNode(it)
    \/ it.k = "raw" /\ ~CallableTag(doc, it.a)

\* the child elements s, each followed by its tail
RECURSIVE ChildPlaces(_)
ChildPlaces(s) ==
    IF s = <<>> THEN <<>>
    ELSE <<Item("elem", Head(s), 0)>>
         \o (IF HasTail(doc, Head(s)) THEN <<Item("tail", Head(s), 0)>>
             ELSE <<>>)
         \o ChildPlaces(Tail(s))

\* text content, child elements and their tails, in source order
ContentPlaces(e) ==
    (IF HasText(doc, e) THEN <<Item("text", e, 0)>> ELSE <<>>)
    \o ChildPlaces(Kids(doc, e))

\* the child axis has been drained: iter_children_or_self with no axis set
ChildAxisDone ==
    /\ gen.state = "done"
    /\ gen.fn = "iter_children_or_self"
    /\ pre[4] = "None"

\* C12: the child axis on an element yields its text content, its element
\* children and each child's tail text, in source order; with no current
\* item it yields the document's top-level children; from the root of
\* <A><B1/><B2/></A> it yields B1, B2.
C12_ChildAxisYieldsContent ==
    ChildAxisDone =>
        /\ OnElement(pre[1]) => OutPlaces = ContentPlaces(ElemOf(pre[1]))
        /\ pre[1] = NoItem => OutPlaces = <<Item("elem", 1, 0)>>
        /\ /\ doc.n = 3 /\ doc.par = <<0, 1, 1>> /\ ~doc.mixed
           /\ doc.last = "elem"
           /\ pre[1].k = "node" /\ nodes[pre[1].a].elem = 1
           /\ nodes[pre[1].a].kind = "element"
           => OutPlaces = <<Item("elem", 2, 0), Item("elem", 3, 0)>>

\* What holds of it: the child elements and their tails are yielded in
\* source order; the text content is yielded for an unwrapped element only.
ChildAxisYieldsChildren ==
    ChildAxisDone /\ OnElement(pre[1]) =>
        /\ SelectSeq(OutPlaces, LAMBDA x : x.k # "text")
              = ChildPlaces(Kids(doc, ElemOf(pre[1])))
        /\ pre[1].k = "raw" => OutPlaces = ContentPlaces(ElemOf(pre[1]))

\* the element that holds the place pl, 0 for the root element, for the
\* document and for what is no place of the document
HolderOf(pl) ==
    CASE pl.k \in {"elem", "tail"} -> doc.par[pl.a]
      [] pl.k \in {"attr", "text"} -> pl.a
      [] OTHER -> 0

InDocument(pl) == pl.k \in {"elem", "tail", "attr", "text"} /\ pl.a # 0

\* the chain of parents of a place, up to the root of the tree
AncestorPlaces(pl) ==
    {Item("elem", x, 0) : x \in AncOrSelf(doc.par, HolderOf(pl))}
    \cup (IF doc.isdoc /\ InDocument(pl) THEN {Item("doc", 0, 0)} ELSE {})

\* iter_ancestors has been drained after it was started on a node or on
\* an element
AncestorsDone ==
    /\ gen.state = "done"
    /\ gen.fn = "iter_ancestors"
    /\ IsXPathNode(pre[1]) \/ pre[1].k = "raw"

\* C13: iter_ancestors yields exactly the chain of parents of the context
\* item up to the root of the tree: [A] for a child of A in
\* <A><B1/><B2/></A>, nothing for A, nothing for an attribute node without
\* a parent; with 'ancestor-or-self' the context item as well.
C13_AncestorsAreTheParentChain ==
    AncestorsDone =>
        LET self == IF gen.arg = "ancestor-or-self"
                    THEN {Place(pre[1])} ELSE {}
            chain == AncestorPlaces(Place(pre[1])) \cup self
        IN  /\ SeqToSet(OutPlaces) = chain
            /\ Len(out) = Cardinality(chain)

\* What holds of it: the same for every item but a text node.
AncestorsOfNonText ==
    AncestorsDone /\ ~IsTextNode(pre[1]) =>
        LET self == IF gen.arg = "ancestor-or-self"
                    THEN {Place(pre[1])} ELSE {}
            chain == AncestorPlaces(Place(pre[1])) \cup self
        IN  /\ SeqToSet(OutPlaces) = chain
            /\ Len(out) = Cardinality(chain)

\* the parent of a place: the holding element, the document for the root
\* element of a document tree, nothing otherwise
ParentPlace(pl) ==
    IF HolderOf(pl) # 0 THEN <<Item("elem", HolderOf(pl), 0)>>
    ELSE IF doc.isdoc /\ pl = Item("elem", 1, 0) THEN <<Item("doc", 0, 0)>>
    ELSE <<>>

\* iter_parent has been run to its end
ParentDone == gen.fn = "iter_parent" /\ gen.state \in {"done", "raised"}

\* C14: iter_parent yields at most one node, the parent of the context
\* item; for the root element of an element tree, for no item and for a
\* node without a parent it yields nothing, and it never raises.
C14_ParentAxisYieldsTheParent ==
    ParentDone =>
        /\ gen.state = "done"
        /\ Len(out) <= 1
        /\ IsXPathNode(pre[1]) \/ pre[1].k = "raw"
              => OutPlaces = ParentPlace(Place(pre[1]))
        /\ pre[1] \in {NoItem, AttrItem(0, 1)} => out = <<>>
        /\ ~doc.isdoc /\ Place(pre[1]) = Item("elem", 1, 0) => out = <<>>

\* What holds of it: the same for every item but a text node.
ParentOfNonText ==
    ParentDone =>
        /\ gen.state = "done"
        /\ Len(out) <= 1
        /\ (IsXPathNode(pre[1]) \/ pre[1].k = "raw") /\ ~IsTextNode(pre[1])
              => OutPlaces = ParentPlace(Place(pre[1]))
        /\ pre[1] \in {NoItem, AttrItem(0, 1)} => out = <<>>
        /\ ~doc.isdoc /\ Place(pre[1]) = Item("elem", 1, 0) => out = <<>>

\* ------------------------------------------------ claims on the copies
\* the context a copy call has just returned
Made == copies'[Len(copies')]

\* the context a reference stands for after the step
CtxAfter(r) ==
    IF r = 0
    THEN [item |-> item', position |-> position', size |-> size',
          axis |-> axis', variables |-> variables', root |-> root']
    ELSE ctxs'[r]

\* the copy of the context r: another object with the same tree and the
\* same focus, the axis ax, and another dict with the same bindings
IsCopyOf(r, ax) ==
    /\ Made \notin Refs
    /\ CtxAfter(Made) = [Ctx(r) EXCEPT !.axis = ax,
                                   !.variables = CtxAfter(Made).variables]
    /\ CtxAfter(Made).variables \notin {Ctx(q).variables : q \in Refs}
    /\ dicts'[CtxAfter(Made).variables] = dicts[Ctx(r).variables]

\* every context but r, and its bindings, is as it was
OthersKept(r) ==
    \A q \in Refs \ {r} :
       /\ CtxAfter(q) = Ctx(q)
       /\ dicts'[Ctx(q).variables] = dicts[Ctx(q).variables]

\* C15: a copy of a context is another context with the same node tree,
\* a duplicate of the variable map and the axis None (kept by
\* copy(clear_axis=False)); what a nested evaluation assigns to the item,
\* position, size, axis or variables of the copy never shows on the
\* context it was copied from.
C15_CopyIsolatesTheOriginal ==
    [][/\ \A r \in Refs :
            /\ Copy(r, TRUE) \/ CopyCopy(r) => IsCopyOf(r, "None")
            /\ Copy(r, FALSE) => IsCopyOf(r, Ctx(r).axis)
            /\ (\E f \in Focuses : SetFocus(r, f)) => OthersKept(r)
            /\ (\E n \in VarNames, v \in VarValues : Bind(r, n, v))
                  => OthersKept(r)
       /\ SelectEnter => IsCopyOf(0, axis) /\ OthersKept(Made)
       /\ (\E x \in ResultItems : SelectYield(x)) => OthersKept(nest.ctx)
      ]_vars

\* a nested evaluation has given the copy another focus and other
\* bindings than the context it was copied from has
C15_Witness ==
    /\ copies # <<>>
    /\ axis = "self"
    /\ dicts[variables]["x"] = "a"
    /\ Ctx(copies[1]).item # item
    /\ Ctx(copies[1]).axis = "child"
    /\ dicts[Ctx(copies[1]).variables]["x"] = "b"

\* ------------------------- claims on namespace and attribute nodes
\* the nodes of a kind the arena holds for the element node i
Owned(i, kind) ==
    {j \in 1..Len(nodes) : nodes[j].kind = kind /\ nodes[j].parent = i}

Elements == {i \in 1..Len(nodes) : nodes[i].kind = "element"}

\* the lists are made by the first read and by no other step
BuiltOnFirstAccess ==
    \A i \in Elements :
       /\ Owned(i, "namespace") = SeqToSet(nodes[i].namespace_nodes)
       /\ Owned(i, "attribute") = SeqToSet(nodes[i].attributes)
       /\ ~nodes[i].has_namespace_nodes => nodes[i].namespace_nodes = <<>>
       /\ ~nodes[i].has_attributes => nodes[i].attributes = <<>>
       /\ nodes[i].has_namespace_nodes =>
             Len(nodes[i].namespace_nodes) = Len(NamespacePrefixes)
       /\ nodes[i].has_attributes =>
             Len(nodes[i].attributes) = NAttrib(doc, nodes[i].elem)

\* the positions of the nodes s are p + 1, p + 2, ...
Following(s, p) == \A j \in 1..Len(s) : nodes[s[j]].position = p + j

\* C16: the namespace nodes and the attribute nodes of an element are
\* built on first access only, and their positions are pairwise distinct
\* and follow the element's position: the 'xml' namespace node, then the
\* other namespace nodes, then the attribute nodes, so every namespace
\* node's position is smaller than every attribute node's.
C16_NamespacesBeforeAttributes ==
    /\ BuiltOnFirstAccess
    /\ \A i \in Elements :
          /\ nodes[i].has_namespace_nodes =>
                /\ NamespacePrefixes[1] = "xml"
                /\ Following(nodes[i].namespace_nodes, nodes[i].position)
          /\ nodes[i].has_namespace_nodes /\ nodes[i].has_attributes =>
                /\ Following(nodes[i].namespace_nodes \o nodes[i].attributes,
                             nodes[i].position)
                /\ \A x \in Owned(i, "namespace"), y \in Owned(i, "attribute") :
                      nodes[x].position < nodes[y].position

\* What holds of it: the lists are built on first access only, the
\* namespace nodes follow the element and the attribute nodes start at the
\* position of the last namespace node.
AttributesStartOnLastNamespace ==
    /\ BuiltOnFirstAccess
    /\ \A i \in Elements :
          /\ nodes[i].has_namespace_nodes =>
                Following(nodes[i].namespace_nodes, nodes[i].position)
          /\ nodes[i].has_attributes =>
                Following(nodes[i].attributes,
                          nodes[i].position + Len(NamespacePrefixes) - 1)

\* ------------------------------------------- claims on the inner focus
\* iter_descendants(inner_focus=True) is the generator the caller holds
InnerFocus == gen.fn = "iter_descendants" /\ gen.inner

\* C17: iter_descendants with inner_focus=True makes the whole list of
\* results first; when it yields the k-th of the N results the item is
\* that result, the position is k and the size is N, the same N at every
\* yield; after the last result item, position, size and axis are the
\* outer ones again.
C17_InnerFocusIsClosed ==
    InnerFocus =>
        /\ gen.state = "suspended" =>
              /\ out = SubSeq(gen.items, 1, Len(out))
              /\ item = out[Len(out)]
              /\ position = Len(out)
              /\ size = Len(gen.items)
        /\ gen.state = "done" => out = gen.items /\ Focus = pre

\* three results have been yielded with the size 3 and the outer size 1
\* is back
C17_Witness ==
    /\ InnerFocus
    /\ gen.state = "done"
    /\ Len(out) = 3
    /\ pre[1] # NoItem
    /\ size = 1

\* ------------------------------------------------- claims on iter_results
\* iter_results has been drained
ResultsDone == nest.fn = "iter_results" /\ nest.state = "done"

\* the collection the caller supplied
Supplied == SeqToSet(nest.supplied)

\* the nodes of the tree in document order
TreeWalk == Seq2Items(NodeIter(nodes, 1))

\* the supplied element nodes made by the caller for the element of x
WrappersOf(x) ==
    IF IsElementNode(x)
    THEN SelectSeq(nest.supplied,
                   LAMBDA w : w.k = "wrap" /\ w.a = nodes[x.a].elem)
    ELSE <<>>

\* what is to be yielded along the walk s: the node if it was supplied,
\* else the supplied element nodes made for its element
RECURSIVE Reconciled(_)
Reconciled(s) ==
    IF s = <<>> THEN <<>>
    ELSE (IF Head(s) \in Supplied THEN <<Head(s)>> ELSE WrappersOf(Head(s)))
         \o Reconciled(Tail(s))

\* root and item are those XPathContext(root) has set
RootAndItemRestored ==
    /\ root = 1
    /\ item = IF doc.isdoc THEN NoItem ELSE NodeItem(root)

\* C18: iter_results yields the members of the caller's collection that
\* are nodes of the walked tree in document order, in whatever order they
\* were supplied, each at most once, yields an element node made for an
\* element where that element is met, and has restored the root and the
\* item of the context when it is drained.
C18_ResultsInDocumentOrder ==
    ResultsDone => out = Reconciled(TreeWalk) /\ RootAndItemRestored

\* What holds of it: the supplied nodes of the tree are yielded in
\* document order, each once, and nothing else is; root and item are
\* restored.
ResultsOfTheTreeInOrder ==
    ResultsDone =>
        /\ out = SelectSeq(TreeWalk, LAMBDA x : x \in Supplied)
        /\ RootAndItemRestored

\* ------------------------------------------------ claims on the parent map
\* a step that looks up the parent of an element in the map
MapRead == \E it \in Lookups : ~IsXPathNode(it) /\ GetParent(it)

\* a step that finds the parent of an element that is no key of the map
\* by the element's getparent()
FallbackFound ==
    /\ GetParent(LxmlItem(1))
    /\ out' = <<LxmlItem(0)>>

\* the map is made by the first lookup that reads it, in one pass over
\* the tree, and stays the same object
BuiltOnceLazily ==
    /\ ~parent_map.built => parent_map.keys = {} /\ parent_map.id = 0
    /\ parent_map.built => Children \subseteq parent_map.keys
    /\ parent_map.built => parent_map.id = 1

\* C19: the parent map of a context is built lazily, not before the first
\* parent lookup that needs it, by one pass over the tree; the same map
\* object serves all later lookups; a lookup of an element outside the map
\* that is resolved by the fallback adds that element to the map and does
\* not rebuild it.
C19_ParentMapLazyAndExtended ==
    [][/\ BuiltOnceLazily /\ BuiltOnceLazily'
       /\ ~parent_map.built /\ parent_map'.built => MapRead
       /\ parent_map.built => parent_map'.id = parent_map.id
       /\ FallbackFound => LxmlItem(1) \in parent_map'.keys
      ]_vars

\* What holds of it: all but the extension; a lookup that the map has
\* built before leaves the map as it is, the fallback too.
ParentMapLazyAndKept ==
    [][/\ BuiltOnceLazily /\ BuiltOnceLazily'
       /\ ~parent_map.built /\ parent_map'.built => MapRead
       /\ parent_map.built => parent_map' = parent_map
       /\ parent_map'.built => parent_map'.keys = Children
      ]_vars

\* ------------------------------------------- claims on the default select
\* the default select has yielded or has ended
Selected == nest.fn = "select" /\ nest.state \in {"suspended", "done"}

\* what the token's evaluate returned to it
Evaluated == nest.supplied[1]

\* C20: the default select yields the items of evaluate(context) in
\* order when that is a list and nothing when it is None; for one value
\* that is no list it assigns the value to context.item, if there is a
\* context, before it yields it; it never changes context.item when the
\* result is a list or None.
C20_DefaultSelect ==
    Selected =>
        /\ out = SubSeq(Evaluated.items, 1, Len(out))
        /\ nest.state = "done" => out = Evaluated.items
        /\ Evaluated.kind = "None" => out = <<>>
        /\ Evaluated.kind = "value" /\ nest.ctx = 0 /\ out # <<>>
              => item = Evaluated.items[1]
        /\ Evaluated.kind \in {"list", "None"} \/ nest.ctx # 0
              => item = pre[1]

\* both items of a list have been yielded and the item of the context is
\* neither of them
C20_Witness ==
    /\ Selected
    /\ nest.ctx = 0
    /\ Evaluated.kind = "list"
    /\ Len(out) = 2
    /\ item \notin SeqToSet(out)

\* get_argument has returned or raised
Called == call.fn = "get_argument" /\ ret.kind # "none"

\* the call raised the XPath error of that code, whatever its prefix
Raised(code) ==
    /\ ret.kind = "raise"
    /\ ret.exception.code # <<>>
    /\ ret.exception.code[Len(ret.exception.code)] = code

\* the operand of the call yields n items
Yielded(n) == ~call.args.operand.missing /\ Len(call.args.operand.results) = n

\* more than one item is an error: no compatibility mode, no schema context
Strict ==
    /\ ~call.self.parser.compatibility_mode
    /\ call.args.context # "XPathSchemaContext"

\* the item needs no conversion: no class is asked or it is of that class
OfClass(obj) == call.args.cls = "None" \/ isinstance(obj, call.args.cls)

\* what the claim says of no item, of several items and of no operand
\* where the context is not read
EmptySeveralMissing ==
    /\ Yielded(2) /\ Strict => Raised("XPTY0004")
    /\ Yielded(0) /\ ~call.args.required => ret = Returns(call.args.default)
    /\ Yielded(0) /\ call.args.required => Raised("XPTY0004")
    /\ call.args.operand.missing /\ call.args.default_to_context
          /\ call.args.context = "None"
          => Raised("XPDY0002")
    /\ call.args.operand.missing /\ ~call.args.default_to_context
          /\ call.args.required
          => Raised("XPST0017")
    /\ call.args.operand.missing /\ ~call.args.default_to_context
          /\ ~call.args.required
          => ret = Returns(NoneValue)

\* C21 as stated: get_argument returns its operand's single item when the
\* operand yields exactly one; more than one item raises XPTY0004 (outside
\* compatibility mode and schema contexts); no item returns the default
\* if the argument is not required and raises XPTY0004 if it is; a missing
\* operand returns the context item if default_to_context (XPDY0002
\* without a context), raises XPST0017 if required, else returns None.
C21_GetArgumentAsStated ==
    Called =>
        /\ EmptySeveralMissing
        /\ Yielded(1) => ret = Returns(call.args.operand.results[1])
        /\ call.args.operand.missing /\ call.args.default_to_context
              /\ call.args.context # "None"
              => ret = Returns(call.args.item)

\* the item get_argument takes from the context
ContextItem ==
    IF call.args.item # NoneValue THEN call.args.item ELSE call.args.root

\* get_argument took an item from the operand or from the context
TookItem ==
    \/ Yielded(1)
    \/ Yielded(2) /\ ~Strict
    \/ /\ call.args.operand.missing
       /\ call.args.default_to_context
       /\ call.args.context # "None"

\* C21 amended: as stated for no item, several items and a missing operand
\* without default_to_context; the single item of the operand is returned
\* when no class is asked or the item is of that class, and so is, for a
\* missing operand with default_to_context, the context item or, when that
\* is None, the context root; whenever a class is asked, a value returned
\* for an item is of that class.
C21_GetArgument ==
    Called =>
        /\ EmptySeveralMissing
        /\ Yielded(1) /\ OfClass(call.args.operand.results[1])
              => ret = Returns(call.args.operand.results[1])
        /\ call.args.operand.missing /\ call.args.default_to_context
              /\ call.args.context # "None" /\ OfClass(ContextItem)
              => ret = Returns(ContextItem)
        /\ TookItem /\ ret.kind = "return" => OfClass(ret.value)

\* the single text node of the operand came back as the float it spells
C21_Witness ==
    /\ Called
    /\ Yielded(1)
    /\ call.args.operand.results[1] = TextNodeOf("1")
    /\ call.args.cls = "float"
    /\ ret = Returns(FloatValue("1.0"))

\* an error shortcut has returned its exception
Constructed == call.fn = "shortcut" /\ ret.kind = "return"

\* the error code of an exception without the prefix it is rendered with
LocalCode(exception) == exception.code[Len(exception.code)]

\* what the same shortcut with the same arguments returns on another token
OnToken(t) ==
    shortcut(t, call.args.helper, call.args.message, call.args.code)

\* the shortcuts whose code depends on the token or on the parser
Dependent == {"wrong_syntax", "missing_axis"}

\* C22 as stated: each error helper maps to one fixed error code, the same
\* for every token label and every parser setting, and the exception
\* carries the offending token.
C22_OneFixedCodeAsStated ==
    Constructed =>
        /\ \A t \in XPathTokens : LocalCode(OnToken(t)) = LocalCode(ret.value)
        /\ ret.value.token = call.self

\* C22 amended: each error helper other than wrong_syntax and missing_axis
\* maps to one fixed error code, the same for every token label and every
\* parser setting; wrong_syntax gives XPST0017 on a token whose label is
\* 'function' and else the code it is passed (XPST0003 by default);
\* missing_axis gives XPST0010 in compatibility mode and else XPST0003;
\* the code is rendered bare or with the prefix the parser binds to the
\* error namespace, and the exception carries the offending token.
C22_OneFixedCode ==
    Constructed =>
        /\ call.args.helper \notin Dependent
              => \A t \in XPathTokens :
                    LocalCode(OnToken(t)) = LocalCode(ret.value)
        /\ call.args.helper = "wrong_syntax"
              => LocalCode(ret.value)
                    = IF call.self.label = "function" THEN "XPST0017"
                      ELSE call.args.code
        /\ call.args.helper = "missing_axis"
              => LocalCode(ret.value)
                    = IF call.self.parser.compatibility_mode THEN "XPST0010"
                      ELSE "XPST0003"
        /\ call.args.helper = "missing_context"
              => LocalCode(ret.value) = "XPDY0002"
        /\ call.args.helper = "wrong_type"
              => LocalCode(ret.value) = "FORG0006"
        /\ Len(ret.value.code) = 2
              => call.self.parser.namespaces[ret.value.code[1]]
                    = XQT_ERRORS_NAMESPACE
        /\ ret.value.token = call.self

\* wrong_syntax passed XPST0003 on a function token of a parser that binds
\* 'err' to the error namespace: the error is err:XPST0017
C22_Witness ==
    /\ Constructed
    /\ call.args.helper = "wrong_syntax"
    /\ call.args.code = "XPST0003"
    /\ call.self.label = "function"
    /\ ret.value.code = <<"err", "XPST0017">>

\* _build_schema_nodes has returned the root node
SchemaBuilt == pc = "built" /\ schema.n > 0

\* the declarations of the children of a node, in order
ChildDecls(i) == [k \in DOMAIN nodes[i].children |-> nodes[nodes[i].children[k]].elem]

\* the nodes of the references
RefNodes == {i \in DOMAIN nodes : schema.ref[nodes[i].elem] # 0}

\* the nodes made for a declaration
NodesOf(e) == {i \in DOMAIN nodes : nodes[i].elem = e}

\* the construction ends on every schema
SchemaBuildEnds == <>(pc = "built")

\* no turn of the loop descends into a declaration it has met before
NoSecondDescent ==
    [][Len(iterators') > Len(iterators)
          => \E e \in 2..schema.n :
                /\ children' = schema.kids[e]
                /\ e \notin elements
                /\ e \in elements']_vars

\* C23: schema-mode construction never re-descends into a declaration it
\* has visited, each declaration yields at most one node, and a ref node
\* keeps its own node identity and is given the children of the
\* declaration it refers to (the children of that declaration's node).
C23_SchemaNodes ==
    /\ \A e \in 1..schema.n : Cardinality(NodesOf(e)) <= 1
    /\ SchemaBuilt =>
          \A r \in RefNodes :
              /\ nodes[r].elem # schema.ref[nodes[r].elem]
              /\ \A d \in NodesOf(schema.ref[nodes[r].elem]) :
                    ChildDecls(r) = ChildDecls(d)

\* what holds of the code: at most one node for a declaration, and the
\* children of a ref node are the unmet children of the declaration it
\* refers to when that declaration was not met before the reference, and
\* none at all when it was
RefNodesOfUnmetOnly ==
    /\ \A e \in 1..schema.n : Cardinality(NodesOf(e)) <= 1
    /\ SchemaBuilt =>
          \A r \in RefNodes :
              LET target == schema.ref[nodes[r].elem]
              IN  /\ SeqToSet(ChildDecls(r)) \subseteq SeqToSet(schema.kids[target])
                  /\ NodesOf(target) # {} => ChildDecls(r) = <<>>

\* context.iter() has been called
Iterated == out # <<>>

\* the nodes of a list that are neither namespace nor attribute nodes
TreeNodesOf(s) ==
    SelectSeq(s, LAMBDA i : nodes[i].kind \notin {"namespace", "attribute"})

\* how many nodes of that kind the list holds for the element
Listed(s, i, kind) ==
    Cardinality({j \in 1..Len(s) :
                    nodes[s[j]].kind = kind /\ nodes[s[j]].parent = i})

\* C24: XPathContext.iter() yields every node of the context tree exactly
\* once in document order, including the namespace nodes and the attribute
\* nodes of every element, and yields the same sequence whenever it is
\* called, whether or not the namespace or attribute lists of some
\* elements have been accessed.
C24_IterYieldsEveryNode ==
    /\ [](Iterated =>
            /\ TreeNodesOf(out) = NodeDescendants(nodes, root)
            /\ \A j, k \in 1..Len(out) : out[j] = out[k] => j = k
            /\ \A i \in Elements :
                  /\ Listed(out, i, "namespace") = Len(NamespacePrefixes)
                  /\ Listed(out, i, "attribute") = NAttrib(doc, nodes[i].elem))
    /\ [][Iterated /\ out' # out => FALSE]_vars

\* what holds of the code: the nodes of the tree in document order, each
\* once, with the namespace and attribute nodes of the lists built so far
IterYieldsTheBuiltNodes ==
    Iterated =>
        /\ TreeNodesOf(out) = NodeDescendants(nodes, root)
        /\ \A j, k \in 1..Len(out) : out[j] = out[k] => j = k
        /\ \A i \in Elements :
              /\ Listed(out, i, "namespace") <= Len(nodes[i].namespace_nodes)
              /\ Listed(out, i, "attribute") <= Len(nodes[i].attributes)

\* iter_preceding has been drained
PrecedingDone == gen.fn = "iter_preceding" /\ gen.state = "done"

\* node a is an ancestor of node b in the tree
AncestorOf(a, b) == a # b /\ b \in SeqToSet(NodeDescendants(nodes, a))

\* the nodes of the tree before node i in document order that are no
\* ancestors of it, earliest first
PrecedingOf(i) ==
    LET all == NodeDescendants(nodes, root)
        at == IndexOf(all, i)
    IN  SelectSeq(SubSeq(all, 1, at - 1), LAMBDA a : ~AncestorOf(a, i))

\* C25: iter_preceding yields exactly the nodes of the tree that come
\* before the context item in document order and are not ancestors of it,
\* earliest first; it yields nothing for the root element, for the
\* document position and for an item that is no node.
C25_PrecedingNodes ==
    PrecedingDone =>
        /\ pre[1].k = "node" => out = Seq2Items(PrecedingOf(pre[1].a))
        /\ pre[1] \in {NoItem, AtomItem} => out = <<>>
        /\ pre[1] = NodeItem(RootElement) => out = <<>>

\* what holds of the code for an element of the tree: the document,
\* element and text nodes before it that are none of its ancestors
PrecedingOfElement ==
    PrecedingDone /\ pre[1].k = "node" /\ nodes[pre[1].a].kind = "element" =>
        out = Seq2Items(SelectSeq(PrecedingOf(pre[1].a),
                  LAMBDA a : nodes[a].kind \in {"document", "element", "text"}))

\* the generator of iter_product has just yielded a tuple, has ended
ProductYielded == nest.fn = "iter_product" /\ nest.state = "suspended"
ProductDone == nest.fn = "iter_product" /\ nest.state = "done"

\* how many tuples the sequences from the k-th on have
RECURSIVE Tuples(_, _)
Tuples(seqs, k) ==
    IF k > Len(seqs) THEN 1 ELSE Len(seqs[k]) * Tuples(seqs, k + 1)

\* the tuples of the cartesian product of the sequences, the last one
\* varying fastest: the i-th tuple takes from the k-th sequence the item
\* that the digit k of i - 1 names
RowMajor(seqs) ==
    [i \in 1..Tuples(seqs, 1) |->
        [k \in 1..Len(seqs) |->
            seqs[k][(((i - 1) \div Tuples(seqs, k + 1)) % Len(seqs[k])) + 1]]]

\* the tuples come in row-major order, all of them once the generator
\* ends, and it ends with the first selector exhausted
ProductInRowMajorOrder ==
    /\ ProductYielded \/ ProductDone
          => /\ Len(out) <= Len(RowMajor(nest.selectors))
             /\ out = SubSeq(RowMajor(nest.selectors), 1, Len(out))
    /\ ProductDone
          => /\ out = RowMajor(nest.selectors)
             /\ nest.iterators[1] = Len(nest.selectors[1])
             /\ nest.k = 1

\* C26 as stated: iter_product yields every tuple of the cartesian product
\* of the selectors' results exactly once in row-major order, ends when
\* the first selector is exhausted, and when a tuple is yielded each
\* variable varnames[k] is bound in context.variables to the tuple's k-th
\* component.
C26_ProductBindsEachAsStated ==
    /\ ProductInRowMajorOrder
    /\ ProductYielded =>
          \A k \in 1..Len(nest.varnames.names) :
              dicts[variables][nest.varnames.names[k]] = out[Len(out)][k]

\* the last place a name has in varnames
LastOf(names, name) ==
    CHOOSE k \in 1..Len(names) :
        /\ names[k] = name
        /\ \A j \in (k + 1)..Len(names) : names[j] # name

\* C26 amended: as stated, but a variable is bound to the component of the
\* last selector that carries its name: to the k-th component when
\* varnames[k] is given once, and to the later one when a name is given
\* twice.
C26_ProductBindsEach ==
    /\ ProductInRowMajorOrder
    /\ ProductYielded =>
          \A k \in 1..Len(nest.varnames.names) :
              dicts[variables][nest.varnames.names[k]]
                  = out[Len(out)][LastOf(nest.varnames.names,
                                         nest.varnames.names[k])]

\* the four tuples of two selectors of two values each have been yielded
\* with x and y bound, and the generator has ended
C26_Witness ==
    /\ ProductDone
    /\ nest.selectors = <<<<"a", "b">>, <<"a", "b">>>>
    /\ nest.varnames.names = <<"x", "y">>
    /\ out = <<<<"a", "a">>, <<"a", "b">>, <<"b", "a">>, <<"b", "b">>>>
    /\ dicts[variables] = [n \in ForNames |-> "b"]

\* the generator ends
ProductEnds == (nest.fn = "iter_product") ~> ProductDone

\* ------------------------------------------- claims on inner_focus_select
\* a generator of inner_focus_select
InnerSelect == nest.fn = "inner_focus_select"

\* C28: inner_focus_select runs the token's selector on a copy of the
\* context, which leaves the context's own focus alone, and then yields
\* the list of the N results with size N: the k-th yield has the k-th
\* result as item and the position k, or N - k + 1 for a token of a
\* reverse axis; when the results are drained item, size, position and
\* axis are the ones of the call again.
C28_InnerFocusSelect ==
    InnerSelect =>
        /\ nest.state = "selecting" =>
              /\ nest.ctx # 0
              /\ nest.ctx \in SeqToSet(copies)
              /\ <<item, size, position, axis>> = nest.status
        /\ nest.state = "suspended" =>
              /\ nest.k = Len(out)
              /\ out = SubSeq(nest.results, 1, nest.k)
              /\ item = nest.results[nest.k]
              /\ size = Len(nest.results)
              /\ position = IF nest.reverse
                            THEN Len(nest.results) - nest.k + 1
                            ELSE nest.k
        /\ nest.state = "done" =>
              /\ out = nest.results
              /\ <<item, size, position, axis>> = nest.status

\* the second of two results of a reverse axis is yielded with the
\* position 1 and the size 2
C28_Witness ==
    /\ InnerSelect
    /\ nest.state = "suspended"
    /\ nest.reverse
    /\ nest.k = 2
    /\ position = 1
    /\ size = 2

\* two results of a reverse axis are drained and the size 1 of the call
\* is back
InnerSelectDrained ==
    /\ InnerSelect
    /\ nest.state = "done"
    /\ nest.reverse
    /\ Len(out) = 2
    /\ size = 1

\* ----------------------------------------- claims on parse after parse
\* parse has been called
Parsed == result.kind # "none"

\* str.strip() leaves nothing of the source
Blank(src) == Strip(src) = <<>>

\* C29: what parse(source) returns or raises on a parser that has been
\* used, whether the earlier calls returned or raised, is what it returns
\* or raises on a new parser: the same tree, or the same error with the
\* same words, line and column.
C29_ParseIgnoresEarlierCalls ==
    Parsed => result = ParseOn(New, source).result

\* the same for the sources that hold a token, and for the others but
\* for the column of the message
ParseForgetsButTheMatch ==
    Parsed =>
        LET fresh == ParseOn(New, source).result
        IN  /\ ~Blank(source) => result = fresh
            /\ [result EXCEPT !.detail.column = 0]
                   = [fresh EXCEPT !.detail.column = 0]

\* a blank source parsed after a source with tokens
BlankAfterTokens ==
    /\ Parsed
    /\ Blank(source)
    /\ match # NoMatch
    /\ result.error = "Unexpected end of source"

\* ------------------------------------------------ claims on _build_nodes
\* the nodes _build_nodes makes
BuiltKinds ==
    {"document", "element", "comment", "processing-instruction", "text"}
BuiltNodes == {i \in 1..Len(nodes) : nodes[i].kind \in BuiltKinds}

\* the places of the node i in the children lists
PlacesOf(i) ==
    {pl \in BuiltNodes \X (1..Len(nodes)) :
        /\ pl[2] <= Len(nodes[pl[1]].children)
        /\ nodes[pl[1]].children[pl[2]] = i}

\* the parent references lead from i to the root in at most n steps
RECURSIVE ReachesRoot(_, _)
ReachesRoot(i, n) ==
    IF i = root THEN TRUE
    ELSE IF n = 0 \/ nodes[i].parent = 0 THEN FALSE
    ELSE ReachesRoot(nodes[i].parent, n - 1)

====
